---------------------------- MODULE Spec2Model ----------------------------
(***************************************************************************)
(* State-machine model of the CoderDojo Eventbrite reporting dashboard:    *)
(*   - the REST client          (src/api/request_eventbrite.py)            *)
(*   - the scraping client      (src/api/request_scrapping_eventbrite.py)  *)
(*   - the transformation service (src/services/events.py)                 *)
(*   - the basic and the extended Dash applications                        *)
(*                              (src/app.py, src/eventbrite_app.py)        *)
(*                                                                         *)
(* Text that the code parses (dates) is a sequence of one-character        *)
(* strings, so that parsing is computed and not assumed.                   *)
(***************************************************************************)
EXTENDS Integers, Sequences, FiniteSets, TLC

VARIABLES
    call,       \* the client call in progress (REST or scraping), its position and locals;
                \* under SpecServices the service call: its input, then its outcome
    driver,     \* the headless browser instance of the scraping client
    app         \* the Dash application: stores, inputs, output regions, running binding

vars == <<call, driver, app>>

\* F applied to the value of v, v being computed once
Bind(v, F(_)) == CHOOSE r \in {F(x) : x \in {v}} : TRUE

-----------------------------------------------------------------------------
(* Bounds of the model *)

\* pages a server script may answer before the model stops following a call
MaxPages == 3

-----------------------------------------------------------------------------
(* Text and dates *)

Digits == <<"0", "1", "2", "3", "4", "5", "6", "7", "8", "9">>

IsDigit(c) == \E i \in 1..10 : Digits[i] = c

DigitVal(c) == (CHOOSE i \in 1..10 : Digits[i] = c) - 1

\* Python truthiness of a str: the empty string is falsy
Truthy(s) == s # <<>>

\* s[i] or "" past the end
At(s, i) == IF i \in 1..Len(s) THEN s[i] ELSE ""

IsLeap(y) == (y % 4 = 0 /\ y % 100 # 0) \/ y % 400 = 0

DaysInMonth(y, m) ==
    IF m = 2 THEN (IF IsLeap(y) THEN 29 ELSE 28)
    ELSE IF m \in {4, 6, 9, 11} THEN 30 ELSE 31

NoDate == [ok |-> FALSE, y |-> 0, m |-> 0, d |-> 0]

\* %m at position i: the alternatives 1[0-2] | 0[1-9] | [1-9], in the order the
\* regular expression tries them; each is <<value, next position>>
MonthAlternatives(s, i) ==
    LET a == At(s, i)
        b == At(s, i + 1)
    IN  (IF a = "1" /\ b \in {"0", "1", "2"} THEN <<<<10 + DigitVal(b), i + 2>>>> ELSE <<>>)
        \o (IF a = "0" /\ IsDigit(b) /\ b # "0" THEN <<<<DigitVal(b), i + 2>>>> ELSE <<>>)
        \o (IF IsDigit(a) /\ a # "0" THEN <<<<DigitVal(a), i + 1>>>> ELSE <<>>)

\* %d at position i: 3[01] | [12]\d | 0[1-9] | [1-9] | " "[1-9]
DayAlternatives(s, i) ==
    LET a == At(s, i)
        b == At(s, i + 1)
    IN  (IF a = "3" /\ b \in {"0", "1"} THEN <<<<30 + DigitVal(b), i + 2>>>> ELSE <<>>)
        \o (IF a \in {"1", "2"} /\ IsDigit(b)
            THEN <<<<10 * DigitVal(a) + DigitVal(b), i + 2>>>> ELSE <<>>)
        \o (IF a = "0" /\ IsDigit(b) /\ b # "0" THEN <<<<DigitVal(b), i + 2>>>> ELSE <<>>)
        \o (IF IsDigit(a) /\ a # "0" THEN <<<<DigitVal(a), i + 1>>>> ELSE <<>>)
        \o (IF a = " " /\ IsDigit(b) /\ b # "0" THEN <<<<DigitVal(b), i + 2>>>> ELSE <<>>)

\* datetime.strptime(s, "%Y-%m-%d"): the first match of
\* (\d\d\d\d)-(month)-(day) from the start of s; text left over after the match,
\* year 0 or a day the month does not have is a ValueError (ok = FALSE)
strptime(s) ==
    IF ~(\A i \in 1..4 : IsDigit(At(s, i))) \/ At(s, 5) # "-"
    THEN NoDate
    ELSE
        LET y  == 1000 * DigitVal(s[1]) + 100 * DigitVal(s[2])
                  + 10 * DigitVal(s[3]) + DigitVal(s[4])
            ms == MonthAlternatives(s, 6)
            \* backtracking: the first month alternative after which "-" and a day match
            good == {k \in 1..Len(ms) :
                        At(s, ms[k][2]) = "-" /\ DayAlternatives(s, ms[k][2] + 1) # <<>>}
        IN  IF good = {}
            THEN NoDate
            ELSE
                LET k  == CHOOSE k \in good : \A j \in good : k <= j
                    mm == ms[k][1]
                    dd == DayAlternatives(s, ms[k][2] + 1)[1]
                IN  IF dd[2] # Len(s) + 1 \/ y = 0 \/ dd[1] > DaysInMonth(y, mm)
                    THEN NoDate
                    ELSE [ok |-> TRUE, y |-> y, m |-> mm, d |-> dd[1]]

\* date comparison (datetime.date ordering)
DateLess(a, b) ==
    \/ a.y < b.y
    \/ a.y = b.y /\ a.m < b.m
    \/ a.y = b.y /\ a.m = b.m /\ a.d < b.d

\* rank of a character in code-point order, for the characters date text uses
CharRank(c) ==
    IF c = " " THEN 0
    ELSE IF c = "-" THEN 1
    ELSE IF c = "/" THEN 2
    ELSE IF IsDigit(c) THEN 3 + DigitVal(c)
    ELSE 20

\* Python's str ">": lexicographic on code points
RECURSIVE StrGreater(_, _)
StrGreater(a, b) ==
    IF a = <<>> THEN FALSE
    ELSE IF b = <<>> THEN TRUE
    ELSE IF CharRank(Head(a)) # CharRank(Head(b)) THEN CharRank(Head(a)) > CharRank(Head(b))
    ELSE StrGreater(Tail(a), Tail(b))


\* date text as the code receives it
Txt_empty      == <<>>
Txt_2024_01_05 == <<"2", "0", "2", "4", "-", "0", "1", "-", "0", "5">>
Txt_2024_06_15 == <<"2", "0", "2", "4", "-", "0", "6", "-", "1", "5">>
Txt_2024_12_31 == <<"2", "0", "2", "4", "-", "1", "2", "-", "3", "1">>
Txt_2024_13_01 == <<"2", "0", "2", "4", "-", "1", "3", "-", "0", "1">>
Txt_2024_02_30 == <<"2", "0", "2", "4", "-", "0", "2", "-", "3", "0">>
Txt_2024_1_5   == <<"2", "0", "2", "4", "-", "1", "-", "5">>

\* the ISO 8601 calendar-date form YYYY-MM-DD: ten characters, zero-padded
\* fields, a day that exists
IsIsoDate(s) ==
    /\ Len(s) = 10
    /\ \A i \in {1, 2, 3, 4, 6, 7, 9, 10} : IsDigit(s[i])
    /\ s[5] = "-" /\ s[8] = "-"
    /\ LET y == 1000 * DigitVal(s[1]) + 100 * DigitVal(s[2])
                + 10 * DigitVal(s[3]) + DigitVal(s[4])
           m == 10 * DigitVal(s[6]) + DigitVal(s[7])
           d == 10 * DigitVal(s[9]) + DigitVal(s[10])
       IN  y >= 1 /\ m \in 1..12 /\ d >= 1 /\ d <= DaysInMonth(y, m)

\* the dates a caller may pass to a client
DateInputs == {Txt_empty, Txt_2024_01_05, Txt_2024_06_15, Txt_2024_12_31,
               Txt_2024_13_01, Txt_2024_02_30, Txt_2024_1_5}

CreatedDateInputs == {Txt_empty, Txt_2024_06_15, Txt_2024_13_01}

TimeFilters == {"all", "past", "current_future"}

\* datetime.now().date() of the run
Today == [ok |-> TRUE, y |-> 2024, m |-> 6, d |-> 15]

Tokens == {"tok1", "tok2"}

-----------------------------------------------------------------------------
(* Exceptions and messages *)

NoExc == [type |-> "none", msg |-> ""]

Exc(type, msg) == [type |-> type, msg |-> msg]

RateLimitMsg ==
    "Hourly rate limit has been reached for this token. Default rate limits are 2,000 calls per hour."

FormatMsg(param_name) ==
    "The parameter '" \o param_name \o "' must be in 'YYYY-MM-DD' format."

\* str() of the requests exception a failed transport raises
TransportCause == "ConnectionError"

-----------------------------------------------------------------------------
(* The platform's answers to the REST client *)

\* a response: an HTTP status (0: the transport failed, requests raises
\* RequestException) and, for a 200, the JSON object's listing array
Resp(status, has_array, items) ==
    [status |-> status, has_array |-> has_array, items |-> items]

PageBodies == {Resp(200, FALSE, <<>>), Resp(200, TRUE, <<>>),
               Resp(200, TRUE, <<"a">>), Resp(200, TRUE, <<"b", "c">>)}

EndResponses == {Resp(429, FALSE, <<>>), Resp(404, FALSE, <<>>),
                 Resp(500, FALSE, <<>>), Resp(0, FALSE, <<>>)}

Responses == PageBodies \cup EndResponses

-----------------------------------------------------------------------------
(* Client calls *)

Args(token, id, time_filter, sd, ed, csd, ced) ==
    [token |-> token, id |-> id, time_filter |-> time_filter,
     start_date |-> sd, end_date |-> ed,
     created_start_date |-> csd, created_end_date |-> ced]

NoArgs == Args("", "", "all", <<>>, <<>>, <<>>, <<>>)

\* no call in progress
IdleCall ==
    [client |-> "none", op |-> "none", pc |-> "idle", args |-> NoArgs,
     page |-> 0, acc |-> <<>>, log |-> <<>>, exc |-> NoExc, ret |-> "none"]

\* validate_date_format over the (date, name) pairs in order: the exception of
\* the first pair that fails, NoExc when all pass
RECURSIVE validate_dates(_)
validate_dates(pairs) ==
    IF pairs = <<>> THEN NoExc
    ELSE IF Truthy(Head(pairs)[1]) /\ ~strptime(Head(pairs)[1]).ok
         THEN Exc("ValueError", FormatMsg(Head(pairs)[2]))
         ELSE validate_dates(Tail(pairs))

\* Paginate with a 429 handled like any other non-200 status: the loop ends and
\* the pages accumulated so far are returned
Paginate_429_ends(c, resp) ==
    LET c1 == [c EXCEPT !.log = Append(@, [page |-> c.page, resp |-> resp])]
    IN  IF resp.status = 0
        THEN [c1 EXCEPT !.pc = "raised",
                        !.exc = Exc("Exception", "API request failed: " \o TransportCause)]
        ELSE IF resp.status # 200
        THEN [c1 EXCEPT !.pc = "returned", !.ret = "list"]
        ELSE [c1 EXCEPT !.acc = @ \o (IF resp.has_array THEN resp.items ELSE <<>>),
                        !.page = @ + 1]

\* Paginate with the page's array assigned to the accumulator, not appended
Paginate_keeps_last_page(c, resp) ==
    LET c1 == [c EXCEPT !.log = Append(@, [page |-> c.page, resp |-> resp])]
    IN  IF resp.status = 0
        THEN [c1 EXCEPT !.pc = "raised",
                        !.exc = Exc("Exception", "API request failed: " \o TransportCause)]
        ELSE IF resp.status = 429
        THEN [c1 EXCEPT !.pc = "raised", !.exc = Exc("RateLimitException", RateLimitMsg)]
        ELSE IF resp.status # 200
        THEN [c1 EXCEPT !.pc = "returned", !.ret = "list"]
        ELSE [c1 EXCEPT !.acc = IF resp.has_array THEN resp.items ELSE <<>>,
                        !.page = @ + 1]

\* Paginate that ends the loop at the first 200 page without items
Paginate_stops_on_empty(c, resp) ==
    LET c1 == [c EXCEPT !.log = Append(@, [page |-> c.page, resp |-> resp])]
    IN  IF resp.status = 0
        THEN [c1 EXCEPT !.pc = "raised",
                        !.exc = Exc("Exception", "API request failed: " \o TransportCause)]
        ELSE IF resp.status = 429
        THEN [c1 EXCEPT !.pc = "raised", !.exc = Exc("RateLimitException", RateLimitMsg)]
        ELSE IF resp.status # 200 \/ ~resp.has_array \/ resp.items = <<>>
        THEN [c1 EXCEPT !.pc = "returned", !.ret = "list"]
        ELSE [c1 EXCEPT !.acc = @ \o resp.items, !.page = @ + 1]

\* one iteration of the pagination loop on response resp: the request is
\* logged, 429 raises, any other non-200 breaks and returns, a transport
\* failure is wrapped, a 200 extends the accumulator and moves to the next page
Paginate(c, resp) ==
    LET c1 == [c EXCEPT !.log = Append(@, [page |-> c.page, resp |-> resp])]
    IN  IF resp.status = 0
        THEN [c1 EXCEPT !.pc = "raised",
                        !.exc = Exc("Exception", "API request failed: " \o TransportCause)]
        ELSE IF resp.status = 429
        THEN [c1 EXCEPT !.pc = "raised", !.exc = Exc("RateLimitException", RateLimitMsg)]
        ELSE IF resp.status # 200
        THEN [c1 EXCEPT !.pc = "returned", !.ret = "list"]
        ELSE [c1 EXCEPT !.acc = @ \o (IF resp.has_array THEN resp.items ELSE <<>>),
                        !.page = @ + 1]

\* entry of the REST event listing: date validation, then the loop's initial state
rest_events_entry(token, start_date, end_date) ==
    LET e  == validate_dates(<<<<start_date, "start_date">>, <<end_date, "end_date">>>>)
        c0 == [IdleCall EXCEPT !.client = "rest", !.op = "events",
                               !.args = Args(token, "53624399466", "all",
                                             start_date, end_date, <<>>, <<>>)]
    IN  IF e # NoExc
        THEN [c0 EXCEPT !.pc = "raised", !.exc = e]
        ELSE [c0 EXCEPT !.pc = "loop", !.page = 1]

\* entry of the REST attendee listing
rest_attendees_entry(token, id_event) ==
    [IdleCall EXCEPT !.client = "rest", !.op = "attendees", !.pc = "loop", !.page = 1,
                     !.args = Args(token, id_event, "all", <<>>, <<>>, <<>>, <<>>)]

RestEventsCall ==
    /\ call.pc = "idle"
    /\ \E token \in Tokens, sd \in DateInputs, ed \in DateInputs :
          call' = rest_events_entry(token, sd, ed)
    /\ UNCHANGED <<driver, app>>

RestEventsRequest ==
    /\ call.client = "rest" /\ call.op = "events" /\ call.pc = "loop"
    /\ call.page <= MaxPages
    /\ \E resp \in Responses : call' = Paginate(call, resp)
    /\ UNCHANGED <<driver, app>>

RestAttendeesCall ==
    /\ call.pc = "idle"
    /\ \E token \in Tokens, id \in {"e1", "e2"} :
          call' = rest_attendees_entry(token, id)
    /\ UNCHANGED <<driver, app>>

RestAttendeesRequest ==
    /\ call.client = "rest" /\ call.op = "attendees" /\ call.pc = "loop"
    /\ call.page <= MaxPages
    /\ \E resp \in Responses : call' = Paginate(call, resp)
    /\ UNCHANGED <<driver, app>>

\* the caller has taken the result (or the exception) of the call
CallDone ==
    /\ call.pc \in {"returned", "raised"}
    /\ call' = IdleCall
    /\ driver' = "none"
    /\ UNCHANGED app

-----------------------------------------------------------------------------
(* The scraping client *)

PastMsg == "With time_filter='past', dates cannot be today or in the future."

CurrentFutureMsg == "With time_filter='current_future', end_date cannot be strictly in the past."

\* a supplied date that is today or later
TodayOrLater(s) == Truthy(s) /\ ~DateLess(strptime(s), Today)

\* the time_filter constraints, evaluated after every date has parsed
time_filter_check(time_filter, sd, ed, csd, ced) ==
    IF time_filter = "past"
       /\ (TodayOrLater(sd) \/ TodayOrLater(ed) \/ TodayOrLater(csd) \/ TodayOrLater(ced))
    THEN Exc("ValueError", PastMsg)
    ELSE IF time_filter = "current_future" /\ Truthy(ed) /\ DateLess(strptime(ed), Today)
    THEN Exc("ValueError", CurrentFutureMsg)
    ELSE NoExc

\* entry of the scraping event listing up to webdriver.Chrome(): validation
\* first; started says whether the browser could be started
scrap_events_entry(token, time_filter, sd, ed, csd, ced, started) ==
    LET e1 == validate_dates(<<<<sd, "start_date">>, <<ed, "end_date">>,
                               <<csd, "created_start_date">>, <<ced, "created_end_date">>>>)
        e2 == IF e1 # NoExc THEN e1 ELSE time_filter_check(time_filter, sd, ed, csd, ced)
        c0 == [IdleCall EXCEPT !.client = "scrap", !.op = "events",
                               !.args = Args(token, "53624399466", time_filter,
                                             sd, ed, csd, ced)]
    IN  IF e2 # NoExc
        THEN [call |-> [c0 EXCEPT !.pc = "raised", !.exc = e2], driver |-> "none"]
        ELSE IF ~started
        THEN [call |-> [c0 EXCEPT !.pc = "raised",
                                  !.exc = Exc("WebDriverException", "cannot start browser")],
              driver |-> "none"]
        ELSE [call |-> [c0 EXCEPT !.pc = "load", !.page = 1], driver |-> "started"]

\* entry of the scraping attendee listing up to webdriver.Chrome()
scrap_attendees_entry(token, id_event, started) ==
    LET c0 == [IdleCall EXCEPT !.client = "scrap", !.op = "attendees",
                               !.args = Args(token, id_event, "all", <<>>, <<>>, <<>>, <<>>)]
    IN  IF ~started
        THEN [call |-> [c0 EXCEPT !.pc = "raised",
                                  !.exc = Exc("WebDriverException", "cannot start browser")],
              driver |-> "none"]
        ELSE [call |-> [c0 EXCEPT !.pc = "load", !.page = 1], driver |-> "started"]

\* what the browser shows on one page: the JSON block (none, ok, bad: does not
\* parse), the pagination control with the CONTINUATED RESPONSE heading (none,
\* next: it has a "next" element, nonext: it has none), and whether the driver
\* itself fails on that page (find_elements or click raising WebDriverException)
ScrapPages ==
    {[json |-> j, pag |-> p, fails |-> f] :
        j \in {"none", "ok", "bad"}, p \in {"none", "next", "nonext"}, f \in {"no", "find", "click"}}

\* the except clause of the outer try: events returns [], attendees falls off
\* the end of the function and returns None
scrap_driver_failure(c) ==
    [call |-> [c EXCEPT !.pc = "returned", !.acc = <<>>,
                        !.ret = IF c.op = "events" THEN "list" ELSE "None"],
     driver |-> "quit"]

\* scrap_page returning the blocks accumulated so far when the JSON block or
\* the "next" element is missing
scrap_page_keeps_blocks(c, pg) ==
    IF pg.fails = "find"
    THEN scrap_driver_failure(c)
    ELSE IF pg.json = "none"
    THEN [call |-> [c EXCEPT !.pc = "returned", !.ret = "list"], driver |-> "quit"]
    ELSE IF pg.json = "bad"
    THEN [call |-> [c EXCEPT !.pc = "raised", !.exc = Exc("JSONDecodeError", "Expecting value")],
          driver |-> "started"]
    ELSE LET c1 == [c EXCEPT !.acc = Append(@, c.page),
                             !.log = Append(@, [page |-> c.page, resp |-> pg])]
         IN  IF pg.pag \in {"nonext", "none"}
             THEN [call |-> [c1 EXCEPT !.pc = "returned", !.ret = "list"], driver |-> "quit"]
             ELSE IF pg.fails = "click"
             THEN scrap_driver_failure(c1)
             ELSE [call |-> [c1 EXCEPT !.page = @ + 1], driver |-> "started"]

\* one iteration of the scraping loop on page pg
scrap_page(c, pg) ==
    IF pg.fails = "find"
    THEN scrap_driver_failure(c)
    ELSE IF pg.json = "none"
    THEN [call |-> [c EXCEPT !.pc = "returned", !.acc = <<>>, !.ret = "list"],
          driver |-> "quit"]
    ELSE IF pg.json = "bad"
    THEN \* json.loads raises JSONDecodeError, which no except clause catches
         [call |-> [c EXCEPT !.pc = "raised", !.exc = Exc("JSONDecodeError", "Expecting value")],
          driver |-> "started"]
    ELSE LET c1 == [c EXCEPT !.acc = Append(@, c.page),
                             !.log = Append(@, [page |-> c.page, resp |-> pg])]
         IN  IF pg.pag = "nonext"
             THEN [call |-> [c1 EXCEPT !.pc = "returned", !.acc = <<>>, !.ret = "list"],
                   driver |-> "quit"]
             ELSE IF pg.pag = "none"
             THEN [call |-> [c1 EXCEPT !.pc = "returned", !.ret = "list"], driver |-> "quit"]
             ELSE IF pg.fails = "click"
             THEN scrap_driver_failure(c1)
             ELSE [call |-> [c1 EXCEPT !.page = @ + 1], driver |-> "started"]

ScrapEventsCall ==
    /\ call.pc = "idle"
    /\ \E token \in {"tok1"}, tf \in TimeFilters, sd \in DateInputs, ed \in DateInputs,
          csd \in CreatedDateInputs, ced \in CreatedDateInputs, started \in BOOLEAN :
          LET r == scrap_events_entry(token, tf, sd, ed, csd, ced, started)
          IN  call' = r.call /\ driver' = r.driver
    /\ UNCHANGED app

ScrapAttendeesCall ==
    /\ call.pc = "idle"
    /\ \E token \in {"tok1"}, id \in {"e1"}, started \in BOOLEAN :
          LET r == scrap_attendees_entry(token, id, started)
          IN  call' = r.call /\ driver' = r.driver
    /\ UNCHANGED app

\* driver.get(url): the page loads, or the driver raises
ScrapLoad ==
    /\ call.client = "scrap" /\ call.pc = "load"
    /\ \E ok \in BOOLEAN :
          LET r == IF ok THEN [call |-> [call EXCEPT !.pc = "page"], driver |-> driver]
                   ELSE scrap_driver_failure(call)
          IN  call' = r.call /\ driver' = r.driver
    /\ UNCHANGED app

ScrapPage ==
    /\ call.client = "scrap" /\ call.pc = "page"
    /\ call.page <= MaxPages
    /\ \E pg \in ScrapPages :
          LET r == scrap_page(call, pg)
          IN  call' = r.call /\ driver' = r.driver
    /\ UNCHANGED app

-----------------------------------------------------------------------------
(* The transformation service: raw platform records are dicts, modelled as
   functions from key to value; a key that is absent is not in the DOMAIN *)

\* pd.NA
NA == "<NA>"

\* float NaN as pandas fills a missing cell of a frame
NaN == "nan"

EmptyDict == <<>>

\* dict.get(k, default)
Get(d, k, default) == IF k \in DOMAIN d THEN d[k] ELSE default

\* the result of a call that may raise: the exception, or NoExc and the value
Raised(e) == [exc |-> e, val |-> <<>>]

Returned(v) == [exc |-> NoExc, val |-> v]

KeyError(k) == Exc("KeyError", "'" \o k \o "'")

\* event["name"]["text"]
event_name_text(event) ==
    IF "name" \notin DOMAIN event THEN Raised(KeyError("name"))
    ELSE IF "text" \notin DOMAIN event["name"] THEN Raised(KeyError("text"))
    ELSE Returned(event["name"]["text"])

\* [event["name"]["text"] for event in response]: the first access that fails
\* raises; no name is removed, no duplicate merged
extract_list_name_events(response) ==
    Bind([i \in 1..Len(response) |-> event_name_text(response[i])], LAMBDA names :
        LET bad == {i \in 1..Len(response) : names[i].exc # NoExc}
        IN  IF bad # {}
            THEN Raised(names[CHOOSE i \in bad : \A j \in bad : i <= j].exc)
            ELSE Returned([i \in 1..Len(response) |-> names[i].val]))

\* nested_or_na giving the empty text for an object without the inner key
nested_or_na_empty_text(event, outer, inner) ==
    IF outer \in DOMAIN event
    THEN (IF inner \in DOMAIN event[outer] THEN event[outer][inner] ELSE "")
    ELSE NA

\* event[outer][inner] behind the two membership tests, else pd.NA
nested_or_na(event, outer, inner) ==
    IF outer \in DOMAIN event
    THEN (IF inner \in DOMAIN event[outer] THEN event[outer][inner] ELSE NA)
    ELSE NA

EventColumns ==
    <<"Name", "Event ID", "Description", "Url", "Creation Date", "Modification Date",
      "Publication Date", "Start Date", "End Date", "Capacity", "Event Status">>

extract_event_informations(event) ==
    ("Name" :> nested_or_na(event, "name", "text"))
    @@ ("Event ID" :> Get(event, "id", NA))
    @@ ("Description" :> nested_or_na(event, "description", "text"))
    @@ ("Url" :> Get(event, "url", NA))
    @@ ("Creation Date" :> Get(event, "created", NA))
    @@ ("Modification Date" :> Get(event, "changed", NA))
    @@ ("Publication Date" :> Get(event, "published", NA))
    @@ ("Start Date" :> nested_or_na(event, "start", "local"))
    @@ ("End Date" :> nested_or_na(event, "end", "local"))
    @@ ("Capacity" :> Get(event, "capacity", NA))
    @@ ("Event Status" :> Get(event, "status", NA))

AnswerAttributes ==
    {"Birth Date", "Age", "Postal Code", "Phone Number",
     "First Name Parent/Guardian", "Last Name Parent/Guardian"}

mapping_questions_answers ==
    [q \in {"Code postal", "Postcode", "Code postal/Postcode/Postal Code"} |-> "Postal Code"]
    @@ [q \in {"geboortedatum (dag-maand-jaar)", "Geboortedatum", "Geboortejaar"} |-> "Birth Date"]
    @@ [q \in {"Âge", "Age", "Leeftijd", "Age/Leeftijd", "Leeftijd/Age", "Leeftijd deelnemer",
               "Voornaam, geslacht en leeftijd van iedereen die je inschrijft"} |-> "Age"]
    @@ [q \in {"(GSM) in geval van een noodgeval",
               "Coordonnées (en cas d'urgence uniquement)/Contact informatie (in geval van nood)/Contact information (in case of an emergency)",
               "Coordonnées (en cas d'urgence uniquement)",
               "Contact informatie (in geval van nood)",
               "Voogd: GSM nummer",
               "Op welk telefoonnummer kunnen wij u bereiken tijdens de dojo?"} |-> "Phone Number"]
    @@ [q \in {"Prénom (parent/tuteur)", "Voornaam (ouder/voogd)", "Voornaam (Ouder / Voogd)",
               "Voornaam en Achternaam(ouder/voogd)/Prénom et  Nom de famille(parent/tuteur)/First name and Last name(parent/guardian)",
               "Prénom (parent/tuteur·rice)",
               "Voornaam (ouder/voogd)/Prénom (parent/tuteur)/First name (parent/guardian)",
               "Prénom (parent/tuteur)/Voornaam (ouder/voogd)/First name (parent/guardian)"}
           |-> "First Name Parent/Guardian"]
    @@ [q \in {"Nom de famille (parent/tuteur·rice)", "Naam en voornaam (ouder/voogd)",
               "Nom de famille (parent/tuteur)/Achternaam (ouder/voogd)/Surname (parent/guardian)",
               "Achternaam (ouder/voogd)", "Achternaam (ouder / voogd)",
               "Achternaam (Ouder / Voogd)",
               "Achternaam (ouder/voogd)/Nom de famille (parent/tuteur)/Surname (parent/guardian)",
               "Naam van ouder/voogd", "Nom de famille (parent/tuteur)", "Naam ouder",
               "Voogd: Voornaam en familienaam", "Naam ouder:"}
           |-> "Last Name Parent/Guardian"]

\* match_questions_answers keeping the first answer given for an attribute
RECURSIVE match_questions_answers_first_wins(_, _)
match_questions_answers_first_wins(pairs, infos) ==
    IF pairs = <<>> THEN infos
    ELSE LET question == Get(Head(pairs), "question", NaN)
             answer   == Get(Head(pairs), "answer", NaN)
             infos1   == IF question \in DOMAIN mapping_questions_answers
                            /\ infos[mapping_questions_answers[question]] = NA
                         THEN [infos EXCEPT ![mapping_questions_answers[question]] = answer]
                         ELSE infos
         IN  match_questions_answers_first_wins(Tail(pairs), infos1)

\* the apply over the rows of the question/answer frame, in list order: a row's
\* missing cell is NaN; a question the mapping knows overwrites its attribute
RECURSIVE match_questions_answers(_, _)
match_questions_answers(pairs, infos) ==
    IF pairs = <<>> THEN infos
    ELSE LET question == Get(Head(pairs), "question", NaN)
             answer   == Get(Head(pairs), "answer", NaN)
             infos1   == IF question \in DOMAIN mapping_questions_answers
                         THEN [infos EXCEPT ![mapping_questions_answers[question]] = answer]
                         ELSE infos
         IN  match_questions_answers(Tail(pairs), infos1)

extract_attendee_questions_answers(list_dict_questions_answers_attendee) ==
    LET init    == [a \in AnswerAttributes |-> NA]
        columns == UNION {DOMAIN list_dict_questions_answers_attendee[i] :
                            i \in 1..Len(list_dict_questions_answers_attendee)}
    IN  IF "question" \in columns /\ "answer" \in columns
        THEN match_questions_answers(list_dict_questions_answers_attendee, init)
        ELSE init

AttendeeColumns ==
    <<"Event ID", "Order ID", "Order Date", "Ticket Type", "Quantity", "Attendee Status",
      "Last Name", "First Name", "Gender", "Age", "Birth Date", "Email", "Address", "City",
      "Postal Code", "Country", "Last Name Parent/Guardian", "First Name Parent/Guardian",
      "Phone Number">>

\* attendee_row with the home postal code taken before the custom answer
attendee_row_home_first(dict_infos_attendee) ==
    Bind(LET answers == Get(dict_infos_attendee, "answers", <<>>)
         IN  IF answers = <<>> THEN [a \in AnswerAttributes |-> NA]
             ELSE extract_attendee_questions_answers(answers), LAMBDA qa :
    LET profile == Get(dict_infos_attendee, "profile", EmptyDict)
        base    == ("Event ID" :> Get(dict_infos_attendee, "event_id", NA))
                   @@ ("Order ID" :> Get(dict_infos_attendee, "order_id", NA))
                   @@ ("Order Date" :> Get(dict_infos_attendee, "changed", NA))
                   @@ ("Ticket Type" :> Get(dict_infos_attendee, "ticket_class_name", NA))
                   @@ ("Quantity" :> Get(dict_infos_attendee, "quantity", NA))
                   @@ ("Attendee Status" :> Get(dict_infos_attendee, "status", NA))
                   @@ ("Last Name" :> Get(profile, "last_name", NA))
                   @@ ("First Name" :> Get(profile, "first_name", NA))
                   @@ ("Gender" :> Get(profile, "gender", NA))
                   @@ ("Email" :> Get(profile, "email", NA))
                   @@ ("Birth Date" :> qa["Birth Date"])
                   @@ ("Age" :> qa["Age"])
                   @@ ("Phone Number" :> qa["Phone Number"])
                   @@ ("First Name Parent/Guardian" :> qa["First Name Parent/Guardian"])
                   @@ ("Last Name Parent/Guardian" :> qa["Last Name Parent/Guardian"])
    IN  IF "addresses" \notin DOMAIN profile
        THEN Raised(Exc("AttributeError", "'NAType' object has no attribute 'get'"))
        ELSE IF DOMAIN profile["addresses"] = {}
        THEN Returned(base @@ ("Address" :> NA) @@ ("City" :> NA) @@ ("Country" :> NA)
                           @@ ("Postal Code" :> qa["Postal Code"]))
        ELSE LET home_informations == Get(profile["addresses"], "home", EmptyDict)
             IN  Returned(base
                          @@ ("City" :> Get(home_informations, "city", NA))
                          @@ ("Postal Code" :> IF "postal_code" \in DOMAIN home_informations
                                               THEN home_informations["postal_code"]
                                               ELSE qa["Postal Code"])
                          @@ ("Address" :> Get(home_informations, "address_1", NA))
                          @@ ("Country" :> Get(home_informations, "country", NA))))

\* the body of the loop over the raw attendees: the row of one attendee, or the
\* exception it raises (without "addresses" in the profile, addresses is pd.NA:
\* pd.NA == {} is not true and pd.NA has no get)
attendee_row(dict_infos_attendee) ==
    Bind(LET answers == Get(dict_infos_attendee, "answers", <<>>)
         IN  IF answers = <<>> THEN [a \in AnswerAttributes |-> NA]
             ELSE extract_attendee_questions_answers(answers), LAMBDA qa :
    LET profile == Get(dict_infos_attendee, "profile", EmptyDict)
        base    == ("Event ID" :> Get(dict_infos_attendee, "event_id", NA))
                   @@ ("Order ID" :> Get(dict_infos_attendee, "order_id", NA))
                   @@ ("Order Date" :> Get(dict_infos_attendee, "changed", NA))
                   @@ ("Ticket Type" :> Get(dict_infos_attendee, "ticket_class_name", NA))
                   @@ ("Quantity" :> Get(dict_infos_attendee, "quantity", NA))
                   @@ ("Attendee Status" :> Get(dict_infos_attendee, "status", NA))
                   @@ ("Last Name" :> Get(profile, "last_name", NA))
                   @@ ("First Name" :> Get(profile, "first_name", NA))
                   @@ ("Gender" :> Get(profile, "gender", NA))
                   @@ ("Email" :> Get(profile, "email", NA))
                   @@ ("Birth Date" :> qa["Birth Date"])
                   @@ ("Age" :> qa["Age"])
                   @@ ("Phone Number" :> qa["Phone Number"])
                   @@ ("First Name Parent/Guardian" :> qa["First Name Parent/Guardian"])
                   @@ ("Last Name Parent/Guardian" :> qa["Last Name Parent/Guardian"])
    IN  IF "addresses" \notin DOMAIN profile
        THEN Raised(Exc("AttributeError", "'NAType' object has no attribute 'get'"))
        ELSE IF DOMAIN profile["addresses"] = {}
        THEN Returned(base @@ ("Address" :> NA) @@ ("City" :> NA) @@ ("Country" :> NA)
                           @@ ("Postal Code" :> qa["Postal Code"]))
        ELSE LET home_informations == Get(profile["addresses"], "home", EmptyDict)
             IN  Returned(base
                          @@ ("City" :> Get(home_informations, "city", NA))
                          \* pd.isna(postal_code)
                          @@ ("Postal Code" :> IF qa["Postal Code"] \in {NA, NaN}
                                               THEN Get(home_informations, "postal_code", NA)
                                               ELSE qa["Postal Code"])
                          @@ ("Address" :> Get(home_informations, "address_1", NA))
                          @@ ("Country" :> Get(home_informations, "country", NA))))

\* the loop over the raw attendees: the rows in list order, or the exception of
\* the first attendee that raises
attendee_rows(list_dict_infos_attendees) ==
    Bind([i \in 1..Len(list_dict_infos_attendees) |->
              attendee_row(list_dict_infos_attendees[i])], LAMBDA rows :
        LET bad == {i \in 1..Len(rows) : rows[i].exc # NoExc}
        IN  IF bad # {}
            THEN Raised(rows[CHOOSE i \in bad : \A j \in bad : i <= j].exc)
            ELSE Returned([i \in 1..Len(rows) |-> rows[i].val]))

\* a per-event result: the empty-list sentinel (kind "list") or a frame of rows
Sentinel == [kind |-> "list", rows |-> <<>>]

Frame(rows) == [kind |-> "frame", rows |-> rows]

extract_attendee_informations(list_dict_infos_attendees) ==
    IF list_dict_infos_attendees = <<>> THEN Returned(Sentinel)
    ELSE Bind(attendee_rows(list_dict_infos_attendees), LAMBDA r :
             IF r.exc # NoExc THEN Raised(r.exc) ELSE Returned(Frame(r.val)))

-----------------------------------------------------------------------------
(* The platform as the applications see it *)

EvA  == [id |-> "e1", name |-> [text |-> "Dojo A"]]
EvB  == [id |-> "e2", name |-> [text |-> "Dojo B"]]
\* a second event with the display name of the first
EvA2 == [id |-> "e3", name |-> [text |-> "Dojo A"]]
\* an event without a name object
EvN  == [id |-> "e4"]

End404 == Resp(404, FALSE, <<>>)
End429 == Resp(429, FALSE, <<>>)
EndFail == Resp(0, FALSE, <<>>)

\* what the platform may answer, page after page, to one event-listing call
EventScripts ==
    {<<Resp(200, TRUE, <<EvA>>), Resp(200, TRUE, <<EvB>>), End404>>,
     <<Resp(200, TRUE, <<EvA, EvB, EvA2>>), End404>>,
     <<Resp(200, TRUE, <<EvA, EvN>>), End404>>,
     <<End404>>,
     <<Resp(200, TRUE, <<EvA>>), End429>>,
     <<EndFail>>}

At1 == [event_id |-> "e1", order_id |-> "o1", status |-> "Checked In",
        profile |-> [first_name |-> "Ann",
                     addresses |-> [home |-> [postal_code |-> "1000"]]]]
At2 == [event_id |-> "e1", order_id |-> "o2", profile |-> [addresses |-> EmptyDict]]
At3 == [event_id |-> "e2", order_id |-> "o3", profile |-> [addresses |-> EmptyDict]]
\* an attendee whose profile has no "addresses"
At5 == [event_id |-> "e3", order_id |-> "o5", profile |-> [first_name |-> "Bob"]]

\* what the platform may answer to one attendee-listing call for an event
AttendeeScripts(id_event) ==
    IF id_event = "e1"
    THEN {<<Resp(200, TRUE, <<At1>>), Resp(200, TRUE, <<At2>>), End404>>,
          <<Resp(200, TRUE, <<At1>>), End429>>}
    ELSE IF id_event = "e2"
    THEN {<<End404>>, <<Resp(200, TRUE, <<At3>>), End404>>}
    ELSE {<<Resp(200, TRUE, <<At5>>), End404>>, <<End404>>}

\* the identity endpoint answers 200 to a valid token only
ValidTokens == {"tok1"}

IdentityAnswers(token) ==
    (IF token \in ValidTokens THEN {200} ELSE {401}) \cup {429, 500, 0}

\* the loop of a REST call run to its end against a script of answers
RECURSIVE rest_run(_, _)
rest_run(c0, script) ==
    Bind(c0, LAMBDA c :
        IF c.pc # "loop" \/ script = <<>> THEN c
        ELSE rest_run(Paginate(c, Head(script)), Tail(script)))

get_filter_events_organization(token, start_date, end_date, script) ==
    Bind(rest_run(rest_events_entry(token, start_date, end_date), script), LAMBDA c :
        IF c.pc = "raised" THEN Raised(c.exc) ELSE Returned(c.acc))

get_event_attendees(token, id_event, script) ==
    Bind(rest_run(rest_attendees_entry(token, id_event), script), LAMBDA c :
        IF c.pc = "raised" THEN Raised(c.exc) ELSE Returned(c.acc))

-----------------------------------------------------------------------------
(* The Dash applications (basic: app.py, extended: eventbrite_app.py) *)

\* n_clicks is only ever compared with 0: the model counts clicks up to MaxClicks
MaxClicks == 1

\* worker threads of the ThreadPoolExecutor (the default is min(32, cpu + 4));
\* scaled down with the number of events so that a fetch can wait in the queue
PoolSize == 2

Click(n) == IF n < MaxClicks THEN n + 1 ELSE n

\* the value of an unset date picker (None) and of an unset store (None) are
\* both falsy; they are modelled by the empty text and the empty string
PickerDates == {Txt_empty, Txt_2024_01_05, Txt_2024_12_31}

\* the pairs of picker values tried: unset, half set, in order, out of order
PickedPairs ==
    {<<Txt_empty, Txt_empty>>, <<Txt_2024_01_05, Txt_empty>>,
     <<Txt_2024_01_05, Txt_2024_12_31>>, <<Txt_2024_12_31, Txt_2024_01_05>>}

TokenInputs == {"", "tok1", "tok2"}

DatesMsg == "Please select both start and end dates."
OrderMsg == "Start date cannot be greater than end date."
TokenMsg == "Token not found. Please log in again."
NoSelectionMsg == "No events selected or token missing."
SelectPromptMsg == "Please select events to display details."
AuthRateLimitMsg == "Hourly rate limit has been reached for this token"
InvalidTokenMsg == "Invalid token"
AuthFailureMsg == "An error occurred. Please try again."
ChartCause == "chart construction failed"

\* error_div with the generic clause catching RateLimitException too
error_div_generic(e) == "An error occurred: " \o e.msg

\* the two except clauses of a binding
error_div(e) ==
    IF e.type = "RateLimitException" THEN e.msg ELSE "An error occurred: " \o e.msg

\* an output region: nothing yet, a message, or the component the binding built
\* (exc: the exception the binding caught when it rendered the region)
EmptyRegion == [kind |-> "empty", msg |-> "", items |-> <<>>, exc |-> NoExc]

Message(msg) == [kind |-> "message", msg |-> msg, items |-> <<>>, exc |-> NoExc]

\* the message an except clause of a binding renders for e
Caught(e) == [kind |-> "message", msg |-> error_div(e), items |-> <<>>, exc |-> e]

Checklist(options) == [kind |-> "checklist", msg |-> "", items |-> options, exc |-> NoExc]

Report(rows) == [kind |-> "report", msg |-> "", items |-> rows, exc |-> NoExc]

NoRun == [listing |-> <<>>, infos |-> <<>>, tasks |-> <<>>, collected |-> 0, exc |-> NoExc]

\* the state of a freshly loaded page at path
AppLoaded(variant, pathname) ==
    [variant |-> variant, pathname |-> pathname, error_message |-> "", token_store |-> "",
     submit_clicks |-> 0, start_date |-> Txt_empty, end_date |-> Txt_empty,
     filter_clicks |-> 0, event_list |-> EmptyRegion, selection |-> <<>>,
     ticked |-> <<>>, validate_clicks |-> 0, event_details |-> EmptyRegion,
     pc |-> "idle", run |-> NoRun, calls |-> <<>>]

\* display_page after the path changed to "/main": the main page is rendered anew
main_page(a) ==
    [a EXCEPT !.start_date = Txt_empty, !.end_date = Txt_empty, !.filter_clicks = 0,
              !.event_list = EmptyRegion, !.selection = <<>>, !.ticked = <<>>,
              !.validate_clicks = 0,
              \* the authentication page and its submit button are gone
              !.submit_clicks = 0]

\* display_page after the browser moved to pathname (history back or forward,
\* no reload): page-content is rendered anew with the authentication page or the
\* main page; the regions of the top-level layout and the store are not outputs
display_page(a, pathname) ==
    [main_page(a) EXCEPT !.pathname = pathname, !.calls = <<>>]

\* a platform call issued by a binding
PlatformCall(op, token, id) == [op |-> op, token |-> token, id |-> id]

\* the identity check and the status it was answered (0: the request failed)
IdentityCall(token, status) ==
    [op |-> "identity", token |-> token, id |-> "", answer |-> status]

\* authenticate with the stored token left as submitted on a 429
authenticate_keeps_token(a, n_clicks, token, status) ==
    IF n_clicks = 0 THEN a
    ELSE LET a1 == [a EXCEPT !.calls = <<IdentityCall(token, status)>>]
         IN  IF status = 200
             THEN main_page([a1 EXCEPT !.pathname = "/main", !.error_message = "",
                                       !.token_store = token])
             ELSE IF status = 429
             THEN [a1 EXCEPT !.error_message = AuthRateLimitMsg, !.token_store = token]
             ELSE IF status # 0
             THEN [a1 EXCEPT !.error_message = InvalidTokenMsg, !.token_store = ""]
             ELSE [a1 EXCEPT !.error_message = AuthFailureMsg, !.token_store = ""]

authenticate(a, n_clicks, token, status) ==
    IF n_clicks = 0 THEN a
    ELSE LET a1 == [a EXCEPT !.calls = <<IdentityCall(token, status)>>]
         IN  IF status = 200
             THEN main_page([a1 EXCEPT !.pathname = "/main", !.error_message = "",
                                       !.token_store = token])
             ELSE IF status = 429
             THEN [a1 EXCEPT !.error_message = AuthRateLimitMsg, !.token_store = ""]
             ELSE IF status # 0
             THEN [a1 EXCEPT !.error_message = InvalidTokenMsg, !.token_store = ""]
             ELSE [a1 EXCEPT !.error_message = AuthFailureMsg, !.token_store = ""]

\* the event-list region a run of filter_events returns, with the calls it made
\* filter_events_result with the token guard tested before the dates guard
filter_events_result_token_first(variant, start_date, end_date, token, script) ==
    IF token = ""
    THEN [region |-> Message(TokenMsg), calls |-> <<>>]
    ELSE IF ~Truthy(start_date) \/ ~Truthy(end_date)
    THEN [region |-> Message(DatesMsg), calls |-> <<>>]
    ELSE IF variant = "extended" /\ StrGreater(start_date, end_date)
    THEN [region |-> Message(OrderMsg), calls |-> <<>>]
    ELSE Bind(get_filter_events_organization(token, start_date, end_date, script),
              LAMBDA events :
         Bind(IF events.exc # NoExc THEN events ELSE extract_list_name_events(events.val),
              LAMBDA names :
             [region |-> IF names.exc # NoExc THEN Caught(names.exc)
                         ELSE Checklist(<<"All">> \o names.val),
              calls  |-> <<PlatformCall("events", token, "")>>]))

filter_events_result(variant, start_date, end_date, token, script) ==
    IF ~Truthy(start_date) \/ ~Truthy(end_date)
    THEN [region |-> Message(DatesMsg), calls |-> <<>>]
    ELSE IF variant = "extended" /\ StrGreater(start_date, end_date)
    THEN [region |-> Message(OrderMsg), calls |-> <<>>]
    ELSE IF token = ""
    THEN [region |-> Message(TokenMsg), calls |-> <<>>]
    ELSE Bind(get_filter_events_organization(token, start_date, end_date, script),
              LAMBDA events :
         Bind(IF events.exc # NoExc THEN events ELSE extract_list_name_events(events.val),
              LAMBDA names :
             [region |-> IF names.exc # NoExc THEN Caught(names.exc)
                         ELSE Checklist(<<"All">> \o names.val),
              calls  |-> <<PlatformCall("events", token, "")>>]))

\* filter_events clearing the report region when it renders a message
filter_events_clears_report(a, n_clicks, script) ==
    IF n_clicks = 0 THEN a
    ELSE Bind(filter_events_result(a.variant, a.start_date, a.end_date, a.token_store,
                                   script), LAMBDA r :
             [a EXCEPT !.event_list = r.region, !.calls = r.calls,
                       !.selection = <<>>, !.ticked = <<>>, !.validate_clicks = 0,
                       !.event_details = IF r.region.kind = "message" THEN EmptyRegion
                                         ELSE @])

filter_events(a, n_clicks, script) ==
    IF n_clicks = 0 THEN a
    ELSE Bind(filter_events_result(a.variant, a.start_date, a.end_date, a.token_store,
                                   script), LAMBDA r :
             [a EXCEPT !.event_list = r.region, !.calls = r.calls,
                       !.selection = <<>>, !.ticked = <<>>, !.validate_clicks = 0])

\* x in list
In(x, list) == \E i \in 1..Len(list) : list[i] = x

RECURSIVE Without(_, _)
Without(list, x) ==
    IF list = <<>> THEN <<>>
    ELSE IF Head(list) = x THEN Without(Tail(list), x)
    ELSE <<Head(list)>> \o Without(Tail(list), x)

\* select_all_events returning every option, "All" included, on select-all
select_all_events_keeps_all(selected_values, options) ==
    LET all_values == Without(options, "All")
    IN  IF In("All", selected_values)
        THEN (IF \A i \in 1..Len(all_values) : In(all_values[i], selected_values)
              THEN <<>>
              ELSE options)
        ELSE selected_values

select_all_events(selected_values, options) ==
    LET all_values == Without(options, "All")
    IN  IF In("All", selected_values)
        THEN (IF \A i \in 1..Len(all_values) : In(all_values[i], selected_values)
              THEN <<>>
              ELSE all_values)
        ELSE selected_values


RECURSIVE Subsequences(_)
Subsequences(list) ==
    IF list = <<>> THEN {<<>>}
    ELSE LET rest == Subsequences(Tail(list))
         IN  rest \cup {<<Head(list)>> \o r : r \in rest}

\* the values the checklist can hand to select_all_events: concrete options
\* ticked, with "All" ticked before them, after them, or not at all
RawSelections(options) ==
    LET concrete == Subsequences(Without(options, "All"))
    IN  concrete \cup {<<"All">> \o c : c \in concrete} \cup {c \o <<"All">> : c \in concrete}

\* select_events keeping every listed event, whatever the selection
select_events_unfiltered(response, selected_event_names) ==
    Bind(extract_list_name_events(response), LAMBDA names :
        IF names.exc # NoExc THEN names ELSE Returned(response))

\* [event for event in response if event["name"]["text"] in selected_event_names]
select_events(response, selected_event_names) ==
    Bind(extract_list_name_events(response), LAMBDA names :
        IF names.exc # NoExc THEN names
        ELSE Returned(SelectSeq(response,
                                LAMBDA event : In(event["name"]["text"],
                                                  selected_event_names))))

Task(id_event) == [id |-> id_event, state |-> "pending", res |-> Sentinel, exc |-> NoExc]

\* display_selected_events up to executor.map: either the region it returns at
\* once (done), or the fetches it has submitted to the pool
validate_start(variant, selected_event_names, token, start_date, end_date, script) ==
    LET calls   == <<PlatformCall("events", token, "")>>
        fail(e) == [done |-> TRUE, region |-> Caught(e), run |-> NoRun,
                    calls |-> calls]
    IN  IF selected_event_names = <<>> \/ token = ""
        THEN [done |-> TRUE, region |-> Message(NoSelectionMsg), run |-> NoRun, calls |-> <<>>]
        ELSE
        Bind(get_filter_events_organization(token, start_date, end_date, script),
             LAMBDA response :
        Bind(IF response.exc # NoExc THEN response
             ELSE select_events(response.val, selected_event_names), LAMBDA selected :
        IF selected.exc # NoExc THEN fail(selected.exc)
        ELSE
        Bind([i \in 1..Len(selected.val) |-> extract_event_informations(selected.val[i])],
             LAMBDA infos :
        \* extended: df_event_infos["Venue ID"], a column extract_event_informations
        \* does not produce
        IF variant = "extended" THEN fail(KeyError("Venue ID"))
        \* a frame built from no record has no column
        ELSE IF infos = <<>> THEN fail(KeyError("Event ID"))
        ELSE [done |-> FALSE, region |-> EmptyRegion,
              run |-> [listing |-> response.val, infos |-> infos,
                       tasks |-> [i \in 1..Len(infos) |-> Task(infos[i]["Event ID"])],
                       collected |-> 0, exc |-> NoExc],
              calls |-> calls])))

\* display_event_details without the guard on the click counter
display_event_details_unguarded(a, n_clicks, script) ==
    IF a.selection = <<>>
    THEN [a EXCEPT !.event_details = Message(SelectPromptMsg), !.calls = <<>>]
    ELSE Bind(validate_start(a.variant, a.selection, a.token_store,
                             a.start_date, a.end_date, script), LAMBDA r :
             IF r.done
             THEN [a EXCEPT !.event_details = r.region, !.calls = r.calls]
             ELSE [a EXCEPT !.pc = "fetching", !.run = r.run, !.calls = r.calls])

display_event_details(a, n_clicks, script) ==
    IF n_clicks = 0 THEN a
    ELSE IF a.selection = <<>>
    THEN [a EXCEPT !.event_details = Message(SelectPromptMsg), !.calls = <<>>]
    ELSE Bind(validate_start(a.variant, a.selection, a.token_store,
                             a.start_date, a.end_date, script), LAMBDA r :
             IF r.done
             THEN [a EXCEPT !.event_details = r.region, !.calls = r.calls]
             ELSE [a EXCEPT !.pc = "fetching", !.run = r.run, !.calls = r.calls])

\* fetch_attendee_data run by a worker against a script of answers
fetch_attendee_data(token, event_id, script) ==
    Bind(get_event_attendees(token, event_id, script), LAMBDA attendees_data :
        IF attendees_data.exc # NoExc THEN attendees_data
        ELSE extract_attendee_informations(attendees_data.val))

RECURSIVE concat(_)
concat(frames) ==
    IF frames = <<>> THEN <<>> ELSE Head(frames).rows \o concat(Tail(frames))

\* the attendee columns of an event row that no attendee row matched
NoAttendee == [c \in {AttendeeColumns[i] : i \in 1..Len(AttendeeColumns)} |-> NA]

\* pd.merge(left, right, how='left', on=["Event ID"]): left order kept, the
\* matching right rows in their order, one all-missing row when none matches
RECURSIVE merge_left(_, _)
merge_left(left, right) ==
    IF left = <<>> THEN <<>>
    ELSE LET l == Head(left)
             matches == SelectSeq(right, LAMBDA r : r["Event ID"] = l["Event ID"])
         IN  (IF matches = <<>> THEN <<l @@ NoAttendee>>
              ELSE [i \in 1..Len(matches) |-> l @@ matches[i]])
             \o merge_left(Tail(left), right)

\* display_selected_events after the pool has delivered every result: the
\* sentinels are dropped, the frames concatenated and joined, the charts built
validate_finish(infos, results, charts_ok) ==
    Bind(SelectSeq(results, LAMBDA item : item.kind # "list"), LAMBDA filtered :
        IF filtered = <<>>
        THEN Caught(Exc("ValueError", "No objects to concatenate"))
        ELSE IF ~charts_ok
        THEN Caught(Exc("ValueError", ChartCause))
        ELSE Report(merge_left(infos, concat(filtered))))

-----------------------------------------------------------------------------
(* Actions of the applications *)

Idle == app.pc = "idle"

\* submit-token: a click, or the framework's initial call with the counter at 0
Submit ==
    /\ Idle /\ app.pathname = "/"
    /\ \E clicked \in BOOLEAN, token \in TokenInputs :
          /\ ~clicked => app.submit_clicks = 0
          /\ \E status \in IdentityAnswers(token) :
                LET n == IF clicked THEN Click(app.submit_clicks) ELSE 0
                IN  app' = authenticate([app EXCEPT !.submit_clicks = n], n, token, status)
    /\ UNCHANGED <<call, driver>>

PickDates ==
    /\ Idle /\ app.pathname = "/main"
    /\ \E pair \in PickedPairs :
          app' = [app EXCEPT !.start_date = pair[1], !.end_date = pair[2]]
    /\ UNCHANGED <<call, driver>>

FilterEvents ==
    /\ Idle /\ app.pathname = "/main"
    /\ \E clicked \in BOOLEAN, script \in EventScripts :
          /\ ~clicked => app.filter_clicks = 0
          /\ LET n == IF clicked THEN Click(app.filter_clicks) ELSE 0
             IN  app' = filter_events([app EXCEPT !.filter_clicks = n], n, script)
    /\ UNCHANGED <<call, driver>>

SelectEvents ==
    /\ Idle /\ app.event_list.kind = "checklist"
    /\ \E raw \in RawSelections(app.event_list.items) :
          app' = [app EXCEPT !.ticked = raw,
                             !.selection = select_all_events(raw, app.event_list.items)]
    /\ UNCHANGED <<call, driver>>

ValidateEvents ==
    /\ Idle /\ app.event_list.kind = "checklist"
    /\ \E clicked \in BOOLEAN, script \in EventScripts :
          /\ ~clicked => app.validate_clicks = 0
          /\ LET n == IF clicked THEN Click(app.validate_clicks) ELSE 0
             IN  app' = display_event_details([app EXCEPT !.validate_clicks = n], n, script)
    /\ UNCHANGED <<call, driver>>

Running == {i \in 1..Len(app.run.tasks) : app.run.tasks[i].state = "running"}

Pending == {i \in 1..Len(app.run.tasks) : app.run.tasks[i].state = "pending"}

\* a free worker takes the oldest queued fetch
TaskStart ==
    /\ app.pc \in {"fetching", "aborting"}
    /\ Pending # {} /\ Cardinality(Running) < PoolSize
    /\ LET i == CHOOSE i \in Pending : \A j \in Pending : i <= j
       IN  app' = [app EXCEPT !.run.tasks[i].state = "running",
                              !.calls = Append(@, PlatformCall("attendees", app.token_store,
                                                               app.run.tasks[i].id))]
    /\ UNCHANGED <<call, driver>>

\* a running fetch returns its result or raises
TaskFinish ==
    /\ app.pc \in {"fetching", "aborting"}
    /\ \E i \in Running :
          \E script \in AttendeeScripts(app.run.tasks[i].id) :
             \E r \in {fetch_attendee_data(app.token_store, app.run.tasks[i].id, script)} :
                 app' = IF r.exc # NoExc
                        THEN [app EXCEPT !.run.tasks[i].state = "raised",
                                         !.run.tasks[i].exc = r.exc]
                        ELSE [app EXCEPT !.run.tasks[i].state = "done",
                                         !.run.tasks[i].res = r.val]
    /\ UNCHANGED <<call, driver>>

\* Collect delivering results as they complete (as_completed): a fetch that
\* raised ends the iteration whatever its place in the listing
Collect_as_completed ==
    /\ app.pc = "fetching"
    /\ app.run.collected < Len(app.run.tasks)
    /\ \/ \E i \in 1..Len(app.run.tasks) :
             /\ app.run.tasks[i].state = "raised"
             /\ app' = [app EXCEPT !.pc = "aborting", !.run.exc = app.run.tasks[i].exc]
       \/ /\ app.run.tasks[app.run.collected + 1].state = "done"
          /\ app' = [app EXCEPT !.run.collected = @ + 1]
    /\ UNCHANGED <<call, driver>>

\* list(executor.map(...)) takes the next result in submission order; a result
\* that is an exception ends the iteration
Collect ==
    /\ app.pc = "fetching"
    /\ app.run.collected < Len(app.run.tasks)
    /\ LET k == app.run.collected + 1
           t == app.run.tasks[k]
       IN  /\ t.state \in {"done", "raised"}
           /\ app' = IF t.state = "done"
                      THEN [app EXCEPT !.run.collected = k]
                      ELSE [app EXCEPT !.pc = "aborting", !.run.exc = t.exc]
    /\ UNCHANGED <<call, driver>>

\* the iterator's finally clause cancels the futures not yet delivered, last
\* submitted first; only a fetch still queued can be cancelled
Cancel ==
    /\ app.pc = "aborting"
    /\ Pending # {}
    /\ LET i == CHOOSE i \in Pending : \A j \in Pending : i >= j
       IN  app' = [app EXCEPT !.run.tasks[i].state = "cancelled"]
    /\ UNCHANGED <<call, driver>>

\* every result was delivered: the with block ends, the tables are joined
Finish ==
    /\ app.pc = "fetching"
    /\ app.run.collected = Len(app.run.tasks)
    /\ \E charts_ok \in BOOLEAN :
          app' = [app EXCEPT !.pc = "idle", !.run = NoRun,
                     !.event_details =
                         validate_finish(app.run.infos,
                             [i \in 1..Len(app.run.tasks) |-> app.run.tasks[i].res],
                             charts_ok)]
    /\ UNCHANGED <<call, driver>>

\* Abort without the join of shutdown(wait=True): the message is rendered while
\* fetches are still running
Abort_without_join ==
    /\ app.pc = "aborting"
    /\ Pending = {}
    /\ app' = [app EXCEPT !.pc = "idle", !.run = NoRun,
                          !.event_details = Caught(app.run.exc)]
    /\ UNCHANGED <<call, driver>>

\* the with block is left on an exception: shutdown(wait=True) joins the
\* workers, then the except clause renders the message
Abort ==
    /\ app.pc = "aborting"
    /\ Pending = {} /\ Running = {}
    /\ app' = [app EXCEPT !.pc = "idle", !.run = NoRun,
                          !.event_details = Caught(app.run.exc)]
    /\ UNCHANGED <<call, driver>>

\* navigation between the two pages
Navigate ==
    /\ Idle
    /\ \E pathname \in {"/", "/main"} \ {app.pathname} :
          app' = display_page(app, pathname)
    /\ UNCHANGED <<call, driver>>

Init ==
    /\ call = IdleCall
    /\ driver = "none"
    /\ \E variant \in {"basic", "extended"}, pathname \in {"/", "/main"} :
          app = AppLoaded(variant, pathname)

Next ==
    \/ Submit
    \/ Navigate
    \/ PickDates
    \/ FilterEvents
    \/ SelectEvents
    \/ ValidateEvents
    \/ TaskStart
    \/ TaskFinish
    \/ Collect
    \/ Cancel
    \/ Finish
    \/ Abort

Spec == Init /\ [][Next]_vars

-----------------------------------------------------------------------------
(* The clients on their own: every call a caller can make, one at a time *)

InitClients ==
    /\ call = IdleCall
    /\ driver = "none"
    /\ app = AppLoaded("basic", "/")

NextClients ==
    \/ RestEventsCall
    \/ RestEventsRequest
    \/ RestAttendeesCall
    \/ RestAttendeesRequest
    \/ ScrapEventsCall
    \/ ScrapAttendeesCall
    \/ ScrapLoad
    \/ ScrapPage
    \/ CallDone

SpecClients == InitClients /\ [][NextClients]_vars

-----------------------------------------------------------------------------
(* Properties of the REST client (under SpecClients) *)

RestCall == call.client = "rest"

\* the listing arrays of the first n logged pages, in page order
RECURSIVE PagesConcat(_, _)
PagesConcat(log, n) ==
    IF n = 0 THEN <<>>
    ELSE PagesConcat(log, n - 1)
         \o (IF log[n].resp.has_array THEN log[n].resp.items ELSE <<>>)

\* C1: in both REST listing operations a 429 answer on page n makes the call
\* raise RateLimitException with the platform's quota message; the call returns
\* nothing (no partial list of pages 1..n-1) and page n is the last one requested
C1_RateLimitRaises ==
    RestCall =>
        \A n \in 1..Len(call.log) :
            call.log[n].resp.status = 429 =>
                /\ call.pc = "raised"
                /\ call.exc = Exc("RateLimitException",
                                  "Hourly rate limit has been reached for this token. Default rate limits are 2,000 calls per hour.")
                /\ call.ret = "none"
                /\ Len(call.log) = n

\* an attendee listing that had accumulated page 1 when page 2 answered 429
C1_Witness ==
    /\ RestCall /\ call.op = "attendees" /\ call.pc = "raised"
    /\ Len(call.log) = 2 /\ call.log[2].resp.status = 429
    /\ call.acc # <<>>

Malformed(s) == Truthy(s) /\ ~IsIsoDate(s)

\* C3: validation precedes all I/O: the REST event listing raises ValueError
\* before any request for a supplied start or end date that is not a valid
\* YYYY-MM-DD date; the scraping event listing raises ValueError before the
\* browser is started for a malformed date, for time filter "past" with a
\* supplied date that is today or later, and for time filter "current_future"
\* with an end date strictly before today
C3_ValidationBeforeIO ==
    LET a == call.args
        rejected == /\ call.pc = "raised" /\ call.exc.type = "ValueError"
                    /\ call.log = <<>> /\ driver = "none"
        dates == <<a.start_date, a.end_date, a.created_start_date, a.created_end_date>>
        later(s) == Truthy(s) /\ IsIsoDate(s) /\ ~DateLess(strptime(s), Today)
    IN  /\ (RestCall /\ call.op = "events"
            /\ (Malformed(a.start_date) \/ Malformed(a.end_date))) => rejected
        /\ (call.client = "scrap" /\ call.op = "events") =>
              /\ (\E i \in 1..4 : Malformed(dates[i])) => rejected
              /\ (a.time_filter = "past" /\ \E i \in 1..4 : later(dates[i])) => rejected
              /\ (a.time_filter = "current_future" /\ IsIsoDate(a.end_date)
                  /\ DateLess(strptime(a.end_date), Today)) => rejected

-----------------------------------------------------------------------------
(* Properties of the applications (under Spec) *)

\* the binding that called the platform last is authenticate
AuthenticateRan == app.calls # <<>> /\ app.calls[1].op = "identity"

\* C4: submit-token has three outcome classes decided by the identity check:
\* 200 navigates to "/main", clears the error and stores the submitted token;
\* 429 stays on the page, shows the rate-limit message and empties the store;
\* any other status shows "Invalid token" and a failed request the generic
\* failure message, both staying on the page with the store emptied
C4_SubmitOutcomes ==
    AuthenticateRan =>
        LET status == app.calls[1].answer
            token  == app.calls[1].token
            stays(message) == /\ app.pathname = "/"
                              /\ app.error_message = message
                              /\ app.token_store = ""
        IN  /\ status = 200 =>
                   /\ app.pathname = "/main"
                   /\ app.error_message = ""
                   /\ app.token_store = token
            /\ status = 429 => stays("Hourly rate limit has been reached for this token")
            /\ status \notin {0, 200, 429} => stays("Invalid token")
            /\ status = 0 => stays("An error occurred. Please try again.")

\* the identity check answered 429 to a submitted token
C4_Witness ==
    /\ AuthenticateRan
    /\ app.calls[1].answer = 429 /\ app.calls[1].token = "tok1"
    /\ app.token_store = "" /\ app.pathname = "/"

\* the concrete options of a checklist, in option order
Concrete(options) == SelectSeq(options, LAMBDA o : o # "All")

\* C5: the "All" toggle: with "All" and every concrete option ticked the
\* selection becomes empty; with "All" ticked and a concrete option missing it
\* becomes the list of the concrete options in option order; without "All" it
\* is the ticked list unchanged
C5_AllToggle ==
    app.event_list.kind = "checklist" =>
        LET concrete == Concrete(app.event_list.items)
            all_in   == \A i \in 1..Len(concrete) : In(concrete[i], app.ticked)
        IN  /\ (In("All", app.ticked) /\ all_in) => app.selection = <<>>
            /\ (In("All", app.ticked) /\ ~all_in) => app.selection = concrete
            /\ ~In("All", app.ticked) => app.selection = app.ticked

\* options [All, Dojo A, Dojo B] with [Dojo A, All] ticked
C5_Witness ==
    /\ app.event_list.kind = "checklist"
    /\ app.event_list.items = <<"All", "Dojo A", "Dojo B">>
    /\ app.ticked = <<"Dojo A", "All">>
    /\ app.selection = <<"Dojo A", "Dojo B">>

\* the IDs of the events of the re-fetched listing whose name is selected
SelectedIds ==
    {app.run.listing[j].id : j \in {j \in 1..Len(app.run.listing) :
                                       In(app.run.listing[j].name.text, app.selection)}}

\* the IDs the attendee listing was called for by the binding in progress
FetchedIds(calls) == {calls[i].id : i \in {i \in 1..Len(calls) : calls[i].op = "attendees"}}

C6_OnlySelectedFetched ==
    app.pc \in {"fetching", "aborting"} =>
        /\ \A i \in 2..Len(app.calls) :
              app.calls[i].op = "attendees" /\ app.calls[i].id \in SelectedIds
        /\ \A i, j \in 2..Len(app.calls) : i # j => app.calls[i].id # app.calls[j].id

C6_TableOfSelected ==
    (app.pc = "fetching" /\ app'.pc = "idle") =>
        /\ FetchedIds(app'.calls) = SelectedIds
        /\ Len(app'.calls) = 1 + Cardinality(SelectedIds)
        /\ app'.event_details.kind = "report" =>
              \A r \in 1..Len(app'.event_details.items) :
                  LET row == app'.event_details.items[r]
                  IN  In(row["Name"], app.selection) /\ row["Event ID"] \in SelectedIds

C7_SentinelsDiscarded ==
    [][(app.pc = "fetching" /\ app'.pc = "idle") =>
          \/ app'.event_details.kind = "report"
          \/ app'.event_details.exc = Exc("ValueError", ChartCause)]_vars

\* a step on which the binding returns from the parallel fetch
Returns == app.pc \in {"fetching", "aborting"} /\ app'.pc = "idle"

SomeFetchRaised == \E i \in 1..Len(app.run.tasks) : app.run.tasks[i].state = "raised"

\* no table from the fetches that succeeded: an error message is shown instead
NoPartialResults ==
    SomeFetchRaised =>
        /\ app.pc = "aborting"
        /\ app'.event_details.kind = "message"
        /\ app'.event_details.exc = app.run.exc /\ app.run.exc # NoExc

Rendered(region) ==
    region.exc # NoExc =>
        /\ region.kind = "message"
        /\ region.msg = IF region.exc.type = "RateLimitException"
                        THEN RateLimitMsg
                        ELSE "An error occurred: " \o region.exc.msg

\* C9: no exception escapes filter-events or validate-events: whatever the
\* client or the service raised, the region shows a message, the platform's
\* quota message for RateLimitException and "An error occurred: " followed by
\* the cause for any other exception
C9_ErrorsRendered ==
    /\ Rendered(app.event_list)
    /\ Rendered(app.event_details)
    /\ app.pc = "aborting" => app.run.exc # NoExc

\* the listing held an event without a name object
C9_Witness ==
    /\ app.event_list.exc.type = "KeyError"
    /\ app.event_list.msg = "An error occurred: 'name'"
    /\ app.event_details.exc.type = "RateLimitException"

\* the guards of filter-events on the values the binding reads
DatesUnset == ~Truthy(app.start_date) \/ ~Truthy(app.end_date)

StartAfterEnd ==
    /\ app.variant = "extended"
    /\ ~DatesUnset
    /\ DateLess(strptime(app.end_date), strptime(app.start_date))

\* C10: filter-events calls the event listing only when its guards pass; when
\* one fails no platform call is made and the message is, in guard order, the
\* missing-dates message, the ordering error (extended application) or the
\* missing-token message
C10_FilterGuards ==
    [][(FilterEvents /\ app'.filter_clicks > 0) =>
          /\ DatesUnset =>
                /\ app'.event_list = Message("Please select both start and end dates.")
                /\ app'.calls = <<>>
          /\ (~DatesUnset /\ StartAfterEnd) =>
                /\ app'.event_list = Message("Start date cannot be greater than end date.")
                /\ app'.calls = <<>>
          /\ (~DatesUnset /\ ~StartAfterEnd /\ app.token_store = "") =>
                /\ app'.event_list = Message("Token not found. Please log in again.")
                /\ app'.calls = <<>>
          /\ (~DatesUnset /\ ~StartAfterEnd /\ app.token_store # "") =>
                app'.calls = <<PlatformCall("events", app.token_store, "")>>]_vars

\* the extended application refused a start date after the end date
C10_Witness ==
    /\ app.variant = "extended"
    /\ app.filter_clicks > 0
    /\ app.start_date = Txt_2024_12_31 /\ app.end_date = Txt_2024_01_05
    /\ app.token_store = "tok1"
    /\ app.event_list = Message(OrderMsg)
    /\ app.calls = <<>>

-----------------------------------------------------------------------------
(* The extraction services and the computations of the report, one call at a
   time: a call holds its input until it ran, then its outcome *)

ServiceCall(op, input) == [op |-> op, input |-> input, pc |-> "called", out |-> <<>>]

\* raise PreventUpdate: the output of the binding is left as it is
NoUpdate == [kind |-> "no_update"]

\* str(date) inside an f-string: the text of the picker's date, "None" when unset
RECURSIVE format_date(_)
format_date(date) ==
    IF date = Txt_empty THEN "None"
    ELSE IF Len(date) = 1 THEN Head(date)
    ELSE Head(date) \o format_date(Tail(date))

\* export_table writing every column of the table, whatever the selection
export_table_every_column(button_id, data, selected_columns, start_date, end_date) ==
    IF data = <<>> \/ selected_columns = <<>> THEN NoUpdate
    ELSE IF button_id = "" THEN NoUpdate
    ELSE LET columns == <<"Name", "First Name", "Email">>
         IN  [kind     |-> "file",
              filename |-> "custom_report_" \o format_date(start_date) \o "_"
                           \o format_date(end_date)
                           \o (IF button_id = "export-csv-button" THEN ".csv" ELSE ".xlsx"),
              index    |-> FALSE,
              header   |-> columns,
              lines    |-> [i \in 1..Len(data) |->
                               [j \in 1..Len(columns) |-> data[i][columns[j]]]]]

\* the download export_table produces: the file's name, its header line and its
\* lines of cells (to_csv / to_excel of df[selected_columns] with index=False)
export_table(button_id, data, selected_columns, start_date, end_date) ==
    IF data = <<>> \/ selected_columns = <<>> THEN NoUpdate
    ELSE IF button_id = "" THEN NoUpdate
    ELSE IF \E j \in 1..Len(selected_columns) :
               \* the columns of pd.DataFrame(data) are the keys of the row dictionaries
               selected_columns[j] \notin UNION {DOMAIN data[i] : i \in 1..Len(data)}
    THEN [kind |-> "raised", exc |-> Exc("KeyError", "not in index")]
    ELSE IF button_id \notin {"export-csv-button", "export-xlsx-button"}
    THEN [kind |-> "message", msg |-> "Error during export. Please try again."]
    ELSE [kind     |-> "file",
          filename |-> "custom_report_" \o format_date(start_date) \o "_"
                       \o format_date(end_date)
                       \o (IF button_id = "export-csv-button" THEN ".csv" ELSE ".xlsx"),
          index    |-> FALSE,
          header   |-> selected_columns,
          lines    |-> [i \in 1..Len(data) |->
                           [j \in 1..Len(selected_columns) |->
                               data[i][selected_columns[j]]]]]

\* the data of a displayed table, over three of its columns
TableData ==
    LET ann == ("Name" :> "Dojo A") @@ ("First Name" :> "Ann") @@ ("Email" :> "ann@x.org")
        bob == ("Name" :> "Dojo B") @@ ("First Name" :> "Bob") @@ ("Email" :> "None")
    IN  {<<>>, <<ann>>, <<ann, bob>>, <<ann, bob, ann>>}

\* the values of the multi-valued column selector: the columns of the table the
\* user kept, in the order they were picked
ColumnSelections ==
    LET C == {"Name", "First Name", "Email"}
    IN  {<<>>} \cup {<<a>> : a \in C}
        \cup {s \in [1..2 -> C] : s[1] # s[2]}
        \cup {s \in [1..3 -> C] : s[1] # s[2] /\ s[1] # s[3] /\ s[2] # s[3]}

ExportInputs ==
    [button_id : {"export-csv-button", "export-xlsx-button"},
     data : TableData, selected_columns : ColumnSelections,
     start_date : {Txt_2024_01_05}, end_date : {Txt_2024_01_05, Txt_2024_12_31}]

\* ages run from 0 to MaxAge
MaxAge == 75

\* pd.cut with right=True, the default: intervals open on the left, closed on the
\* right
cut_right_closed(x, bins, names) ==
    LET hits == {i \in 1..Len(bins) : bins[i] < x /\ (i = Len(bins) \/ x <= bins[i + 1])}
    IN  IF hits = {} THEN NaN ELSE names[CHOOSE i \in hits : TRUE]

\* pd.cut(x, bins, labels=names, right=False) for bins ending with np.inf (left
\* out of bins here): the label of the interval [bins[i], bins[i+1]) that holds
\* x, the last interval having no upper edge; NaN below the first edge
cut(x, bins, names) ==
    LET hits == {i \in 1..Len(bins) : bins[i] <= x /\ (i = Len(bins) \/ x < bins[i + 1])}
    IN  IF hits = {} THEN NaN ELSE names[CHOOSE i \in hits : TRUE]

\* the AgeRange of a row of the checked-in participants or volunteers of the
\* extended application; the Age cell is <<>> when missing (pd.NA) and <<a>> for
\* the age a; fillna(-1) comes before the cut
AgeRange(group, age) ==
    LET AgeFilled == IF age = <<>> THEN -1 ELSE age[1]
    IN  IF group = "participants"
        THEN cut(AgeFilled, <<-1, 3, 6, 9, 12, 15, 18>>,
                 <<"Missing", "3-5", "6-8", "9-11", "12-14", "15-17", "17>">>)
        ELSE cut(AgeFilled, <<-1, 0, 16, 22, 31, 41, 51, 61, 71>>,
                 <<"Missing", "<16", "16-21", "22-30", "31-40", "41-50", "51-60", "61-70",
                   "70>">>)

AgeRanges ==
    /\ call.op = "AgeRange" /\ call.pc = "called"
    /\ call' = [call EXCEPT !.pc = "returned",
                            !.out = AgeRange(call.input.group, call.input.age)]
    /\ UNCHANGED <<driver, app>>

\* value_counts of the Dojo Region column of a table: the number of rows of each
\* region, rows without a region (NaN) not counted
region_counts(rows) ==
    [r \in {rows[i]["Dojo Region"] : i \in 1..Len(rows)} \ {NaN} |->
        Cardinality({i \in 1..Len(rows) : rows[i]["Dojo Region"] = r})]

\* freq_by_region keeping the regions of the event table that have no
\* participant or no volunteer, with a count of 0
freq_by_region_left(df_event_infos, df_infos_events_and_attendees) ==
    LET checked_in(category) ==
            SelectSeq(df_infos_events_and_attendees,
                      LAMBDA row : /\ row["Ticket Category"] = category
                                   /\ row["Attendee Status"] = "Checked In")
        dojos        == region_counts(df_event_infos)
        participants == region_counts(checked_in("Participant"))
        volunteers   == region_counts(checked_in("Volunteer"))
    IN  {[Region |-> r, dojos |-> dojos[r],
          participants |-> IF r \in DOMAIN participants THEN participants[r] ELSE 0,
          volunteers |-> IF r \in DOMAIN volunteers THEN volunteers[r] ELSE 0] :
            r \in DOMAIN dojos}

\* df_freq_by_region: the region counts of the event table, of the checked-in
\* participants and of the checked-in volunteers of the report, merged on Region
\* by two inner joins
freq_by_region(df_event_infos, df_infos_events_and_attendees) ==
    LET checked_in(category) ==
            SelectSeq(df_infos_events_and_attendees,
                      LAMBDA row : /\ row["Ticket Category"] = category
                                   /\ row["Attendee Status"] = "Checked In")
        dojos        == region_counts(df_event_infos)
        participants == region_counts(checked_in("Participant"))
        volunteers   == region_counts(checked_in("Volunteer"))
    IN  {[Region |-> r, dojos |-> dojos[r], participants |-> participants[r],
          volunteers |-> volunteers[r]] :
            r \in DOMAIN dojos \cap DOMAIN participants \cap DOMAIN volunteers}

\* one or two selected events, each in a region (NaN: postal code not resolved)
\* and with its attendees given by ticket category and status; the report is
\* the left join of the events with their attendees
RegionInputs ==
    LET P  == [category |-> "Participant", status |-> "Checked In"]
        V  == [category |-> "Volunteer", status |-> "Checked In"]
        Pa == [category |-> "Participant", status |-> "Attending"]
        Va == [category |-> "Volunteer", status |-> "Attending"]
        O  == [category |-> "Other", status |-> "Checked In"]
        attendees == {<<>>, <<P, Va>>, <<V>>, <<P, V>>, <<P, P, V>>, <<Pa, O, V, V>>}
        event(id, region, list) ==
            [info |-> ("Event ID" :> id) @@ ("Dojo Region" :> region),
             rows |-> IF list = <<>>
                      THEN <<("Event ID" :> id) @@ ("Dojo Region" :> region)
                             @@ ("Ticket Category" :> NaN) @@ ("Attendee Status" :> NaN)>>
                      ELSE [i \in 1..Len(list) |->
                               ("Event ID" :> id) @@ ("Dojo Region" :> region)
                               @@ ("Ticket Category" :> list[i].category)
                               @@ ("Attendee Status" :> list[i].status)]]
        regions == {"Brussels", "Flanders", "Wallonia", NaN}
        first   == {event("e1", r, l) : r \in regions, l \in attendees}
        second  == {event("e2", r, l) : r \in regions, l \in attendees}
    IN  {[df_event_infos |-> <<a.info>>, df_infos_events_and_attendees |-> a.rows] :
            a \in first}
        \cup {[df_event_infos |-> <<a.info, b.info>>,
               df_infos_events_and_attendees |-> a.rows \o b.rows] :
                 a \in first, b \in second}

FreqByRegion ==
    /\ call.op = "freq_by_region" /\ call.pc = "called"
    /\ call' = [call EXCEPT !.pc = "returned",
                            !.out = freq_by_region(call.input.df_event_infos,
                                                   call.input.df_infos_events_and_attendees)]
    /\ UNCHANGED <<driver, app>>

\* raw events as the platform lists them: each of the nested objects is absent,
\* present without the sub-key the extraction reads, or complete; each of the
\* other keys is absent or present
RawEvents ==
    LET nested == {"name", "description", "start", "end"}
        scalar == {"url", "created", "changed", "published", "capacity", "status", "id"}
        full   == [name |-> [text |-> "Dojo A", html |-> "<p>Dojo A</p>"],
                   description |-> [text |-> "Coding", html |-> "<p>Coding</p>"],
                   start |-> [timezone |-> "Europe/Brussels", local |-> "2024-06-15T10:00:00"],
                   end |-> [timezone |-> "Europe/Brussels", local |-> "2024-06-15T12:00:00"],
                   url |-> "https://www.eventbrite.be/e/e1", created |-> "2024-01-05T09:00:00Z",
                   changed |-> "2024-02-01T09:00:00Z", published |-> "2024-01-06T09:00:00Z",
                   capacity |-> 30, status |-> "live", id |-> "e1"]
        bare   == [name |-> [html |-> "<p>Dojo A</p>"], description |-> [html |-> "<p>Coding</p>"],
                   start |-> [timezone |-> "Europe/Brussels"],
                   end |-> [timezone |-> "Europe/Brussels"]]
    IN  {[k \in {n \in nested : shape[n] # "absent"} \cup present |->
             IF k \in nested /\ shape[k] = "bare" THEN bare[k] ELSE full[k]] :
            shape \in [nested -> {"absent", "bare", "full"}], present \in SUBSET scalar}

\* custom answers of an attendee: lists of up to three pairs whose question is a
\* text of the mapping (two of them synonyms for the postal code), a text of the
\* mapping in another case or an unknown text, and whose answer is given or
\* left out; and every text of the mapping alone
AnswerLists ==
    LET questions == {"Code postal", "Postcode", "Geboortedatum", "Âge",
                      "(GSM) in geval van een noodgeval", "Prénom (parent/tuteur)",
                      "Naam ouder", "postcode", "T-shirt"}
        pairs     == {[question |-> q, answer |-> a] : q \in questions, a \in {"1000", "2012"}}
                     \cup {[question |-> q] : q \in {"Postcode", "T-shirt"}}
    IN  UNION {[1..n -> pairs] : n \in 0..2}
        \cup {<<p, [question |-> "Postcode", answer |-> "1000"],
                 [question |-> "Code postal", answer |-> "2012"]>> : p \in pairs}
        \cup {<<[question |-> q, answer |-> "9000"]>> : q \in DOMAIN mapping_questions_answers}

ExtractAnswers ==
    /\ call.op = "extract_attendee_questions_answers" /\ call.pc = "called"
    /\ call' = [call EXCEPT !.pc = "returned",
                            !.out = extract_attendee_questions_answers(call.input)]
    /\ UNCHANGED <<driver, app>>

\* lists of raw attendees: one attendee with any of its six direct fields, with
\* or without a profile, the profile with or without its sub-fields and its
\* "addresses" (empty, or a home object with any of its fields, or no home
\* object), with or without custom answers; and lists of several attendees
AttendeeLists ==
    LET Sub(r, S) == [k \in S |-> r[k]]
        direct    == [event_id |-> "e1", order_id |-> "o1", changed |-> "2024-06-01T10:00:00Z",
                      ticket_class_name |-> "Ninja", quantity |-> 1, status |-> "Checked In"]
        person    == [last_name |-> "Lee", first_name |-> "Ann", gender |-> "female",
                      email |-> "ann@x.org"]
        home      == [address_1 |-> "Rue A 1", city |-> "Brussels", postal_code |-> "1000",
                      country |-> "BE"]
        addresses == {EmptyDict, [work |-> home]}
                     \cup {[home |-> Sub(home, S)] : S \in SUBSET DOMAIN home}
        profiles  == {Sub(person, S) : S \in SUBSET DOMAIN person}
                     \cup {Sub(person, S) @@ [addresses |-> a] :
                              S \in {{}, {"first_name"}, DOMAIN person}, a \in addresses}
        answers   == {<<>>,
                      <<[question |-> "Postcode", answer |-> "2012"]>>,
                      <<[question |-> "T-shirt", answer |-> "M"]>>,
                      <<[question |-> "Postcode"], [question |-> "Âge", answer |-> "9"]>>}
        parts     == {EmptyDict} \cup {[profile |-> p] : p \in profiles}
        custom    == {EmptyDict} \cup {[answers |-> a] : a \in answers}
        one       == {Sub(direct, S) @@ p @@ c :
                         S \in SUBSET DOMAIN direct, p \in parts, c \in custom}
        ann       == direct @@ [profile |-> person @@ [addresses |-> [home |-> home]]]
        bob       == [event_id |-> "e1", order_id |-> "o2",
                      profile |-> [first_name |-> "Bob", addresses |-> EmptyDict],
                      answers |-> <<[question |-> "Postcode", answer |-> "2012"]>>]
        cid       == [order_id |-> "o3", profile |-> [first_name |-> "Cid"]]
    IN  {<<a>> : a \in one}
        \cup UNION {[1..n -> {ann, bob, cid}] : n \in 2..3}

ExtractAttendees ==
    /\ call.op = "extract_attendee_informations" /\ call.pc = "called"
    /\ \E out \in {extract_attendee_informations(call.input)} :
          call' = [call EXCEPT !.pc = "returned", !.out = out]
    /\ UNCHANGED <<driver, app>>

ExtractEventInformations ==
    /\ call.op = "extract_event_informations" /\ call.pc = "called"
    /\ call' = [call EXCEPT !.pc = "returned", !.out = extract_event_informations(call.input)]
    /\ UNCHANGED <<driver, app>>

ExportTable ==
    /\ call.op = "export_table" /\ call.pc = "called"
    /\ \E out \in {export_table(call.input.button_id, call.input.data,
                                call.input.selected_columns, call.input.start_date,
                                call.input.end_date)} :
          call' = [call EXCEPT !.pc = "returned", !.out = out]
    /\ UNCHANGED <<driver, app>>

InitServices ==
    /\ driver = "none" /\ app = AppLoaded("basic", "/")
    /\ \/ \E event \in RawEvents : call = ServiceCall("extract_event_informations", event)
       \/ \E answers \in AnswerLists :
             call = ServiceCall("extract_attendee_questions_answers", answers)
       \/ \E attendees \in AttendeeLists :
             call = ServiceCall("extract_attendee_informations", attendees)
       \/ \E input \in ExportInputs : call = ServiceCall("export_table", input)
       \/ \E group \in {"participants", "volunteers"},
             age \in {<<>>} \cup {<<a>> : a \in 0..MaxAge} :
             call = ServiceCall("AgeRange", [group |-> group, age |-> age])
       \/ \E input \in RegionInputs : call = ServiceCall("freq_by_region", input)

NextServices ==
    \/ ExtractEventInformations
    \/ ExtractAnswers
    \/ ExtractAttendees
    \/ ExportTable
    \/ AgeRanges
    \/ FreqByRegion

SpecServices == InitServices /\ [][NextServices]_vars

-----------------------------------------------------------------------------
(* C11-C20: the checklist and the report of the applications, the extraction
   services *)

\* C11: a successful filter-events renders a checklist whose first option is
\* "All", followed by the distinct event names of the listing: every listed
\* name is an option, no name is an option twice, nothing is selected
C11_ChecklistDistinctNames ==
    [][(FilterEvents /\ app'.event_list.kind = "checklist") =>
          LET options == app'.event_list.items
          IN  /\ Head(options) = "All"
              /\ \A i, j \in 2..Len(options) : i # j => options[i] # options[j]
              /\ \E script \in EventScripts :
                    LET events == get_filter_events_organization(
                                      app.token_store, app.start_date, app.end_date, script)
                        names  == extract_list_name_events(events.val)
                    IN  /\ events.exc = NoExc /\ names.exc = NoExc
                        /\ {names.val[k] : k \in 1..Len(names.val)}
                              = {options[i] : i \in 2..Len(options)}
              /\ app'.selection = <<>>]_vars

\* C12: for a non-empty table and a non-empty column selection the export is a
\* file of exactly the selected columns, in selection order and without an
\* index column, of every row, named custom_report_{start}_{end}.csv or .xlsx
\* after the trigger; for an empty table or selection nothing is produced
C12_ExportSelectedColumns ==
    (call.op = "export_table" /\ call.pc = "returned") =>
        LET data     == call.input.data
            selected == call.input.selected_columns
            out      == call.out
        IN  IF data = <<>> \/ selected = <<>> THEN out = NoUpdate
            ELSE /\ out.kind = "file"
                 /\ out.header = selected /\ ~out.index
                 /\ Len(out.lines) = Len(data)
                 /\ \A i \in 1..Len(data) :
                       /\ Len(out.lines[i]) = Len(selected)
                       /\ \A j \in 1..Len(selected) :
                             out.lines[i][j] = data[i][selected[j]]
                 /\ out.filename =
                       "custom_report_" \o format_date(call.input.start_date) \o "_"
                       \o format_date(call.input.end_date)
                       \o (IF call.input.button_id = "export-csv-button"
                           THEN ".csv" ELSE ".xlsx")

\* two of the three columns, picked in another order than the table's, of a
\* table of three rows, exported as CSV
C12_Witness ==
    /\ call.op = "export_table" /\ call.pc = "returned"
    /\ call.input.button_id = "export-csv-button"
    /\ Len(call.input.data) = 3
    /\ call.input.selected_columns = <<"Email", "Name">>
    /\ call.out.kind = "file"
    /\ call.out.filename = "custom_report_2024-01-05_2024-12-31.csv"
    /\ call.out.header = <<"Email", "Name">>
    /\ call.out.lines = <<<<"ann@x.org", "Dojo A">>, <<"None", "Dojo B">>,
                          <<"ann@x.org", "Dojo A">>>>

\* C13: a scraping call whose input validation passed never raises and every
\* failure (browser start-up, page load or driver failure, JSON block missing
\* or not parsing, pagination without a next element) ends with the call
\* returning an empty list; the only other end is the list of the pages read
C13_ScrapingDegradesToEmptyList ==
    /\ [](call.client = "scrap" =>
             /\ call.pc = "raised" => call.exc.type = "ValueError"
             /\ call.pc = "returned" => call.ret = "list")
    /\ [][(call.client = "scrap" /\ call.pc \in {"load", "page"}
           /\ call'.pc \notin {"load", "page"}) =>
             /\ call'.pc = "returned" /\ call'.ret = "list"
             /\ call'.acc = <<>> \/ (call.pc = "page" /\ call'.acc = Append(call.acc, call.page))
         ]_vars

\* C14: for a raw event that is a mapping, extract event info returns a record:
\* name, description, start and end are the nested text / local value when the
\* key and the sub-key are there and the missing marker otherwise; url,
\* created, changed, published, capacity, status and id are the value of their
\* key when it is there, unchanged, and the missing marker otherwise
C14_EventInfoMissingMarkers ==
    (call.op = "extract_event_informations" /\ call.pc = "returned") =>
        LET event == call.input
            out   == call.out
        IN  /\ \A f \in {<<"Name", "name", "text">>, <<"Description", "description", "text">>,
                         <<"Start Date", "start", "local">>, <<"End Date", "end", "local">>} :
                  /\ f[1] \in DOMAIN out
                  /\ out[f[1]] = IF f[2] \in DOMAIN event /\ f[3] \in DOMAIN event[f[2]]
                                 THEN event[f[2]][f[3]] ELSE "<NA>"
            /\ \A f \in {<<"Url", "url">>, <<"Creation Date", "created">>,
                         <<"Modification Date", "changed">>, <<"Publication Date", "published">>,
                         <<"Capacity", "capacity">>, <<"Event Status", "status">>,
                         <<"Event ID", "id">>} :
                  /\ f[1] \in DOMAIN out
                  /\ out[f[1]] = IF f[2] \in DOMAIN event THEN event[f[2]] ELSE "<NA>"

\* an event without a name object, with a description lacking its text, with
\* its capacity and without a status
C14_Witness ==
    /\ call.op = "extract_event_informations" /\ call.pc = "returned"
    /\ DOMAIN call.input = {"description", "start", "capacity", "id"}
    /\ "text" \notin DOMAIN call.input.description
    /\ "local" \in DOMAIN call.input.start
    /\ call.out["Name"] = "<NA>" /\ call.out["Description"] = "<NA>"
    /\ call.out["Start Date"] = "2024-06-15T10:00:00" /\ call.out["End Date"] = "<NA>"
    /\ call.out["Capacity"] = 30 /\ call.out["Event Status"] = "<NA>"
    /\ call.out["Event ID"] = "e1"

\* C15: the record extract event info returns has exactly the fields of the
\* Event entity, the venue ID among them
C15_EventRecordHasVenueId ==
    (call.op = "extract_event_informations" /\ call.pc = "returned") =>
        DOMAIN call.out = {"Name", "Event ID", "Description", "Url", "Creation Date",
                           "Modification Date", "Publication Date", "Start Date", "End Date",
                           "Capacity", "Event Status", "Venue ID"}

\* C16: on a list of {question, answer} pairs extract answers returns six
\* attributes, each holding the answer of the last pair of the list whose exact
\* question text the mapping sends to it, and the missing marker when there is
\* no such pair; a question text that is not in the mapping changes nothing
C16_AnswersLastPairWins ==
    (call.op = "extract_attendee_questions_answers" /\ call.pc = "returned"
     /\ \A i \in 1..Len(call.input) : DOMAIN call.input[i] = {"question", "answer"}) =>
        LET pairs == call.input
            out   == call.out
        IN  /\ DOMAIN out = {"Birth Date", "Age", "Postal Code", "Phone Number",
                             "First Name Parent/Guardian", "Last Name Parent/Guardian"}
            /\ \A a \in DOMAIN out :
                  LET hits == {i \in 1..Len(pairs) :
                                 /\ pairs[i].question \in DOMAIN mapping_questions_answers
                                 /\ mapping_questions_answers[pairs[i].question] = a}
                  IN  IF hits = {} THEN out[a] = "<NA>"
                      ELSE out[a] = pairs[CHOOSE i \in hits : \A j \in hits : j <= i].answer

\* an unmapped question, then two synonyms for the postal code: the later wins
C16_Witness ==
    /\ call.op = "extract_attendee_questions_answers" /\ call.pc = "returned"
    /\ call.input = <<[question |-> "T-shirt", answer |-> "1000"],
                      [question |-> "Postcode", answer |-> "1000"],
                      [question |-> "Code postal", answer |-> "2012"]>>
    /\ call.out["Postal Code"] = "2012"
    /\ \A a \in DOMAIN call.out \ {"Postal Code"} : call.out[a] = "<NA>"

\* the postal code the custom answers of a raw attendee produce
CustomPostalCode(attendee) ==
    IF "answers" \notin DOMAIN attendee \/ attendee.answers = <<>> THEN "<NA>"
    ELSE extract_attendee_questions_answers(attendee.answers)["Postal Code"]

\* C17: in a row of extract attendees the Postal Code of an attendee with a
\* non-empty addresses.home object is the postal code of the custom answers
\* when they produced one and addresses.home.postal_code otherwise; with an
\* empty addresses object it is what the custom answers produced, and Address,
\* City and Country are missing
C17_PostalCodePrecedence ==
    (call.op = "extract_attendee_informations" /\ call.pc = "returned"
     /\ call.out.exc = NoExc /\ call.input # <<>>) =>
        \A i \in 1..Len(call.input) :
            LET attendee == call.input[i]
                row      == call.out.val.rows[i]
                custom   == CustomPostalCode(attendee)
            IN  ("profile" \in DOMAIN attendee /\ "addresses" \in DOMAIN attendee.profile) =>
                    LET addresses == attendee.profile.addresses
                    IN  /\ DOMAIN addresses = {} =>
                              /\ row["Postal Code"] = custom
                              /\ row["Address"] = "<NA>" /\ row["City"] = "<NA>"
                              /\ row["Country"] = "<NA>"
                        /\ ("home" \in DOMAIN addresses /\ DOMAIN addresses.home # {}) =>
                              row["Postal Code"] =
                                  IF custom \notin {"<NA>", "nan"} THEN custom
                                  ELSE IF "postal_code" \in DOMAIN addresses.home
                                  THEN addresses.home.postal_code ELSE "<NA>"

\* a home address with postal code 1000 and a custom "Postcode" answer 2012
C17_Witness ==
    /\ call.op = "extract_attendee_informations" /\ call.pc = "returned"
    /\ Len(call.input) = 1
    /\ "profile" \in DOMAIN call.input[1] /\ "answers" \in DOMAIN call.input[1]
    /\ "addresses" \in DOMAIN call.input[1].profile
    /\ "home" \in DOMAIN call.input[1].profile.addresses
    /\ "postal_code" \in DOMAIN call.input[1].profile.addresses.home
    /\ call.input[1].profile.addresses.home.postal_code = "1000"
    /\ call.input[1].answers = <<[question |-> "Postcode", answer |-> "2012"]>>
    /\ call.out.exc = NoExc
    /\ call.out.val.rows[1]["Postal Code"] = "2012"

\* C18: on a non-empty list of raw attendee mappings extract attendees raises
\* nothing and returns one row per record, in input order, in which every
\* field absent from the record is the missing marker
C18_AbsentFieldsAreMissing ==
    (call.op = "extract_attendee_informations" /\ call.pc = "returned"
     /\ call.input # <<>>) =>
        /\ call.out.exc = NoExc
        /\ call.out.val.kind = "frame"
        /\ Len(call.out.val.rows) = Len(call.input)
        /\ \A i \in 1..Len(call.input) :
              LET attendee == call.input[i]
                  row      == call.out.val.rows[i]
                  profile  == IF "profile" \in DOMAIN attendee THEN attendee.profile ELSE <<>>
                  home     == IF "addresses" \in DOMAIN profile
                                 /\ "home" \in DOMAIN profile.addresses
                              THEN profile.addresses.home ELSE <<>>
              IN  /\ \A f \in {<<"Event ID", "event_id">>, <<"Order ID", "order_id">>,
                               <<"Order Date", "changed">>,
                               <<"Ticket Type", "ticket_class_name">>,
                               <<"Quantity", "quantity">>, <<"Attendee Status", "status">>} :
                        row[f[1]] = IF f[2] \in DOMAIN attendee THEN attendee[f[2]] ELSE "<NA>"
                  /\ \A f \in {<<"Last Name", "last_name">>, <<"First Name", "first_name">>,
                               <<"Gender", "gender">>, <<"Email", "email">>} :
                        row[f[1]] = IF f[2] \in DOMAIN profile THEN profile[f[2]] ELSE "<NA>"
                  /\ \A f \in {<<"Address", "address_1">>, <<"City", "city">>,
                               <<"Country", "country">>} :
                        row[f[1]] = IF f[2] \in DOMAIN home THEN home[f[2]] ELSE "<NA>"
                  /\ "answers" \notin DOMAIN attendee =>
                        /\ \A a \in {"Birth Date", "Age", "Phone Number",
                                     "First Name Parent/Guardian",
                                     "Last Name Parent/Guardian"} : row[a] = "<NA>"
                        /\ row["Postal Code"] =
                              IF "postal_code" \in DOMAIN home THEN home.postal_code ELSE "<NA>"

\* C19: the age ranges of the extended application: a missing age is "Missing";
\* an age a is given the label of the interval [lo, hi) of the edges that holds
\* it, so that among participants "3-5" is given exactly to the ages 3 to 5,
\* ..., "17>" exactly to the ages above 17, and among volunteers "<16" exactly
\* to the ages below 16, ..., "70>" exactly to the ages above 70
C19_AgeRanges ==
    (call.op = "AgeRange" /\ call.pc = "returned") =>
        LET label == call.out
            Within(lo, hi) == call.input.age # <<>> /\ lo <= call.input.age[1]
                          /\ call.input.age[1] < hi
            AtLeast(lo) == call.input.age # <<>> /\ lo <= call.input.age[1]
        IN  /\ call.input.age = <<>> => label = "Missing"
            /\ call.input.group = "participants" =>
                  /\ label = "Missing" <=> (call.input.age = <<>> \/ Within(-1, 3))
                  /\ label = "3-5" <=> Within(3, 6)
                  /\ label = "6-8" <=> Within(6, 9)
                  /\ label = "9-11" <=> Within(9, 12)
                  /\ label = "12-14" <=> Within(12, 15)
                  /\ label = "15-17" <=> Within(15, 18)
                  /\ label = "17>" <=> AtLeast(18)
            /\ call.input.group = "volunteers" =>
                  /\ label = "Missing" <=> (call.input.age = <<>> \/ Within(-1, 0))
                  /\ label = "<16" <=> Within(0, 16)
                  /\ label = "16-21" <=> Within(16, 22)
                  /\ label = "22-30" <=> Within(22, 31)
                  /\ label = "31-40" <=> Within(31, 41)
                  /\ label = "41-50" <=> Within(41, 51)
                  /\ label = "51-60" <=> Within(51, 61)
                  /\ label = "61-70" <=> Within(61, 71)
                  /\ label = "70>" <=> AtLeast(71)
            /\ (call.input.group = "participants" /\ call.input.age = <<5>>) => label = "3-5"
            /\ (call.input.group = "participants" /\ call.input.age = <<20>>) => label = "17>"

\* a participant of age 18, the lower edge of the last interval
C19_Witness ==
    /\ call.op = "AgeRange" /\ call.pc = "returned"
    /\ call.input.group = "participants" /\ call.input.age = <<18>>
    /\ call.out = "17>"

\* C20: the regional aggregate holds a region exactly when the region has a
\* selected event, a checked-in Participant row and a checked-in Volunteer row,
\* once, with the numbers of its event rows, of its checked-in Participant rows
\* and of its checked-in Volunteer rows
C20_RegionalAggregate ==
    (call.op = "freq_by_region" /\ call.pc = "returned") =>
        LET events == call.input.df_event_infos
            report == call.input.df_infos_events_and_attendees
            Dojos(r) == Cardinality({i \in 1..Len(events) : events[i]["Dojo Region"] = r})
            Rows(r, category) ==
                Cardinality({i \in 1..Len(report) :
                                /\ report[i]["Dojo Region"] = r
                                /\ report[i]["Ticket Category"] = category
                                /\ report[i]["Attendee Status"] = "Checked In"})
        IN  /\ \A row \in call.out : row.Region \in {"Brussels", "Flanders", "Wallonia"}
            /\ \A r \in {"Brussels", "Flanders", "Wallonia"} :
                  IF Dojos(r) >= 1 /\ Rows(r, "Participant") >= 1 /\ Rows(r, "Volunteer") >= 1
                  THEN {row \in call.out : row.Region = r}
                          = {[Region |-> r, dojos |-> Dojos(r),
                              participants |-> Rows(r, "Participant"),
                              volunteers |-> Rows(r, "Volunteer")]}
                  ELSE {row \in call.out : row.Region = r} = {}

\* Flanders has a dojo and a checked-in participant but no checked-in volunteer
\* and is absent; Brussels has all three and is there
C20_Witness ==
    /\ call.op = "freq_by_region" /\ call.pc = "returned"
    /\ Len(call.input.df_event_infos) = 2
    /\ call.input.df_event_infos[1]["Dojo Region"] = "Flanders"
    /\ call.input.df_event_infos[2]["Dojo Region"] = "Brussels"
    /\ \E i \in 1..Len(call.input.df_infos_events_and_attendees) :
          LET row == call.input.df_infos_events_and_attendees[i]
          IN  /\ row["Dojo Region"] = "Flanders" /\ row["Ticket Category"] = "Participant"
              /\ row["Attendee Status"] = "Checked In"
    /\ call.out = {[Region |-> "Brussels", dojos |-> 1, participants |-> 2, volunteers |-> 1]}

-----------------------------------------------------------------------------
(* Termination of pagination, first clicks, quota message, the two clients,
   frames of the bindings, scraping pagination and browser release,
   the "All" toggle, the token store and the parallel fetches (C21-C30) *)

\* C21: termination of REST pagination depends only on the server. A listing
\* call past validation has requested pages 1, 2, ... in order; it is still in
\* its loop exactly while every answer so far was a 200 (an empty or absent
\* array included), each such answer moving it to the next page whatever the
\* page number, and it has returned or raised exactly when its last answer was
\* a status other than 200 or a transport failure.
C21_TerminationByServerOnly ==
    /\ [](call.client = "rest" =>
            /\ \A i \in 1..Len(call.log) :
                  /\ call.log[i].page = i
                  /\ i < Len(call.log) => call.log[i].resp.status = 200
            /\ call.pc = "loop" =>
                  /\ call.page = Len(call.log) + 1
                  /\ \A i \in 1..Len(call.log) : call.log[i].resp.status = 200
            /\ call.pc \in {"returned", "raised"} =>
                  \/ call.log = <<>> /\ call.exc.type = "ValueError"
                  \/ call.log # <<>> /\ call.log[Len(call.log)].resp.status # 200)
    /\ [][call.client = "rest" /\ call.pc = "loop" =>
            /\ Len(call'.log) = Len(call.log) + 1
            /\ LET resp == call'.log[Len(call'.log)].resp
               IN  IF resp.status = 200
                   THEN call'.pc = "loop" /\ call'.page = call.page + 1
                   ELSE call'.pc \in {"returned", "raised"}]_vars

\* a listing that received MaxPages answers of status 200, the last one with an
\* empty array, and is about to request the next page
C21_Witness ==
    /\ call.client = "rest" /\ call.pc = "loop"
    /\ call.page = MaxPages + 1
    /\ call.log[MaxPages].resp = Resp(200, TRUE, <<>>)
    /\ call.acc = <<>>

\* the platform calls of kind op among the calls of the last binding
CallsOf(op) == SelectSeq(app.calls, LAMBDA c : c.op = op)

\* C22: no click-driven binding acts before its first click. Fired with a
\* counter of 0, submit-token, filter-events and validate-events leave the whole
\* application state as it is; while the counter of a rendered trigger is 0 the
\* binding has made no platform call and its outputs are as rendered; the export
\* binding fired without a triggering button yields no file; and a step that
\* re-renders the checklist leaves the Validate counter at 0 without starting
\* validate-events.
C22_NoActionBeforeFirstClick ==
    /\ [](/\ \A token \in TokenInputs : \A status \in IdentityAnswers(token) :
                authenticate(app, 0, token, status) = app
          /\ \A script \in EventScripts :
                /\ filter_events(app, 0, script) = app
                /\ display_event_details(app, 0, script) = app
          /\ app.pathname = "/" /\ app.submit_clicks = 0 => CallsOf("identity") = <<>>
          /\ app.filter_clicks = 0 =>
                app.event_list = EmptyRegion /\ CallsOf("events") = <<>>
          /\ app.validate_clicks = 0 =>
                app.pc = "idle" /\ CallsOf("attendees") = <<>>
          /\ app.event_details.kind = "report" =>
                \A selected_columns \in ColumnSelections :
                    export_table("", app.event_details.items, selected_columns,
                                 app.start_date, app.end_date) = NoUpdate)
    /\ [][app'.event_list # app.event_list \/ app'.filter_clicks # app.filter_clicks =>
            /\ app'.validate_clicks = 0
            /\ app'.pc = "idle"
            /\ app'.event_details = app.event_details
            /\ SelectSeq(app'.calls, LAMBDA c : c.op = "attendees") = <<>>]_vars

\* filter-events was re-run after a report was shown: the Validate trigger is
\* rendered anew with its counter at 0 and the earlier report is still displayed
C22_Witness ==
    /\ app.filter_clicks > 0
    /\ app.event_list.kind = "checklist"
    /\ app.validate_clicks = 0
    /\ app.event_details.kind = "report"

\* C23: whenever the platform answers 429 to a call of a binding (the identity
\* check of submit-token, the event listing of filter-events or validate-events,
\* an attendee listing of validate-events) the message shown is the quota
\* message verbatim, and the binding has made that call once only.
C23_QuotaMessageVerbatim ==
    /\ AuthenticateRan /\ app.calls[1].answer = 429 =>
          app.error_message = RateLimitMsg /\ Len(app.calls) = 1
    /\ app.event_list.exc.type = "RateLimitException" =>
          app.event_list.msg = RateLimitMsg
    /\ app.event_details.exc.type = "RateLimitException" =>
          app.event_details.msg = RateLimitMsg
    /\ Len(CallsOf("events")) <= 1
    /\ \A i, j \in 1..Len(app.calls) :
          app.calls[i].op = "attendees" /\ app.calls[j].op = "attendees" /\ i # j =>
              app.calls[i].id # app.calls[j].id

\* the part of C23 that the listings obey: a rate-limit exception caught by
\* filter-events or validate-events is shown as the quota message
C23_ListingsShowQuotaMessage ==
    /\ app.event_list.exc.type = "RateLimitException" =>
          app.event_list.msg = RateLimitMsg
    /\ app.event_details.exc.type = "RateLimitException" =>
          app.event_details.msg = RateLimitMsg

\* the records the platform lists on page p of a listing
PlatformPage(op, p) ==
    IF op = "events"
    THEN (IF p = 1 THEN <<EvA>> ELSE <<EvB, EvA2>>)
    ELSE (IF p = 1 THEN <<At1>> ELSE <<At2, At3>>)

\* the answers of the REST endpoint for a listing of n pages
RestScript(op, n) == [p \in 1..n |-> Resp(200, TRUE, PlatformPage(op, p))] \o <<End404>>

\* the list the REST client returns for a listing of n pages
RestList(op, n) ==
    IF op = "events"
    THEN get_filter_events_organization("tok1", Txt_empty, Txt_empty, RestScript(op, n)).val
    ELSE get_event_attendees("tok1", "e1", RestScript(op, n)).val

\* the list a scraping call returns: the parsed JSON block of every page it
\* visited, an object holding the page's records under the listing's key
ScrapList ==
    [i \in 1..Len(call.acc) |->
        IF call.op = "events" THEN [events |-> PlatformPage(call.op, call.acc[i])]
        ELSE [attendees |-> PlatformPage(call.op, call.acc[i])]]

\* C24: the scraping client is redundant with the REST client: a scraping
\* listing that ran to the end of the pagination with order start_asc and time
\* filter all returns the ordered list of raw records the REST listing returns
\* for the same pages, so that extract event names gives the same names on both.
C24_ScrapingEqualsRest ==
    (/\ call.client = "scrap" /\ call.pc = "returned" /\ call.acc # <<>>
     /\ call.args.time_filter = "all") =>
        /\ ScrapList = RestList(call.op, Len(call.acc))
        /\ call.op = "events" =>
              extract_list_name_events(ScrapList)
                  = extract_list_name_events(RestList(call.op, Len(call.acc)))

\* C25: a failing binding changes only the output region it owns. A step in
\* which filter-events renders a message (a rejected guard or a caught
\* exception) leaves the report region, the error-message region, the stored
\* token and the path as they were; a step in which validate-events renders a
\* message leaves the checklist region, its ticked values and selection, the
\* error-message region, the stored token and the path as they were.
C25_FailureTouchesOwnRegionOnly ==
    [][/\ (app'.event_list # app.event_list /\ app'.event_list.kind = "message") =>
              /\ app'.event_details = app.event_details
              /\ app'.error_message = app.error_message
              /\ app'.token_store = app.token_store
              /\ app'.pathname = app.pathname
       /\ (app'.event_details # app.event_details /\ app'.event_details.kind = "message") =>
              /\ app'.event_list = app.event_list
              /\ app'.ticked = app.ticked /\ app'.selection = app.selection
              /\ app'.error_message = app.error_message
              /\ app'.token_store = app.token_store
              /\ app'.pathname = app.pathname]_vars

\* filter-events was answered 429 while the report of an earlier validation is
\* displayed: the checklist region shows the quota message, the report remains
C25_Witness ==
    /\ app.event_list.exc.type = "RateLimitException"
    /\ app.event_details.kind = "report"
    /\ app.token_store # "" /\ app.pathname = "/main"

C27_BrowserReleased ==
    (call.client = "scrap" /\ call.pc \in {"returned", "raised"}) => driver # "started"

\* the part of C27 that holds: a scraping call that returns has released its
\* browser, and a call that raised before starting one holds none
C27_ReleasedOnReturn ==
    /\ (call.client = "scrap" /\ call.pc = "returned") => driver = "quit"
    /\ (call.client = "scrap" /\ call.pc = "raised" /\ call.exc.type # "JSONDecodeError") =>
          driver = "none"

\* C28: the output of the "All" toggle never contains "All", and the toggle
\* applied to the value it has just returned returns that same value: the
\* selection is a fixed point of the binding after one firing.
C28_ToggleFixedPoint ==
    app.event_list.kind = "checklist" =>
        /\ ~In("All", app.selection)
        /\ select_all_events(app.selection, app.event_list.items) = app.selection

\* only "All" ticked on [All, Dojo A, Dojo B]: the toggle selected both events
\* and a re-firing on that value selects them again instead of clearing them
C28_Witness ==
    /\ app.event_list.kind = "checklist"
    /\ app.ticked = <<"All">>
    /\ app.selection = <<"Dojo A", "Dojo B">>
    /\ select_all_events(app.selection, app.event_list.items) = <<"Dojo A", "Dojo B">>

\* C29: the token store. Right after submit-token the store holds the submitted
\* token if the identity check answered 200 and is empty otherwise; a step
\* changes the store only if it is a submit-token step; and every event-listing
\* or attendee-listing call of a binding carries the stored token, which is not
\* empty.
C29_TokenStore ==
    /\ [](/\ AuthenticateRan =>
                app.token_store = (IF app.calls[1].answer = 200 THEN app.calls[1].token
                                   ELSE "")
          /\ \A i \in 1..Len(app.calls) :
                app.calls[i].op \in {"events", "attendees"} =>
                    app.calls[i].token = app.token_store /\ app.token_store # "")
    /\ [][app'.token_store # app.token_store =>
            app'.calls # <<>> /\ app'.calls[1].op = "identity"]_vars

\* validate-events is fetching the attendees of e1 with the token stored by the
\* last successful submit-token
C29_Witness ==
    /\ app.pc = "fetching"
    /\ app.token_store = "tok1"
    /\ \E i \in 1..Len(app.calls) :
          app.calls[i] = PlatformCall("attendees", "tok1", "e1")

\* the place of the event with this ID in the table of selected events
ListingPlace(id) ==
    CHOOSE j \in 1..Len(app.run.infos) : app.run.infos[j]["Event ID"] = id

\* C30: the outcome of validate-events is a function of the per-event results
\* in listing order, not of the order in which the fetches completed. When the
\* binding returns after some fetch raised, the message is that of the first
\* event in listing order whose fetch raised; when it returns a table, the table
\* is the left join of the selected events with the frames concatenated in
\* listing order, and its rows follow the listing order of their events.
C30_OrderIndependent ==
    [][Returns =>
          LET tasks  == app.run.tasks
              raised == {i \in 1..Len(tasks) : tasks[i].state = "raised"}
              frames == SelectSeq([i \in 1..Len(tasks) |-> tasks[i].res],
                                  LAMBDA item : item.kind # "list")
              rows   == app'.event_details.items
          IN  IF raised # {}
              THEN app'.event_details =
                       Caught(tasks[CHOOSE i \in raised : \A j \in raised : i <= j].exc)
              ELSE app'.event_details.kind = "report" =>
                       /\ rows = merge_left(app.run.infos, concat(frames))
                       /\ \A r, s \in 1..Len(rows) :
                             r < s => ListingPlace(rows[r]["Event ID"])
                                          <= ListingPlace(rows[s]["Event ID"])]_vars

\* the fetches of e1 and e3 both raised, with different exceptions: the one
\* retained for the message is that of e1, first in the listing
C30_Witness ==
    /\ app.pc = "aborting"
    /\ Len(app.run.tasks) = 2
    /\ app.run.tasks[1].state = "raised" /\ app.run.tasks[2].state = "raised"
    /\ app.run.tasks[1].exc.type = "RateLimitException"
    /\ app.run.tasks[2].exc.type = "AttributeError"
    /\ app.run.exc = app.run.tasks[1].exc

=============================================================================
